---------------------------- MODULE Spec2Model ----------------------------
(***************************************************************************)
(* Ledger (Blockchain), node registry (NodeManager) and voting consensus   *)
(* coordinator (ConsensusEngine) of the AI Health Chains backend.          *)
(*                                                                         *)
(* SHA-256 is modelled as a collision-free symbolic digest: the digest of  *)
(* a message is a record holding the message itself (body) and the value   *)
(* of its leading `difficulty` hex characters (pre), a fixed function of   *)
(* the message.  Date.now() is the model clock `now`; crypto.randomUUID()  *)
(* for transactions is the fresh counter `nextId`.                         *)
(*                                                                         *)
(* MerkleTree (features/data-integrity) is modelled next to them: a tree   *)
(* object built over a list of items, getProof, verifyProof, verifyBatch.  *)
(***************************************************************************)
EXTENDS Integers, Sequences, FiniteSets, TLC

\* ----------------------------------------------------------------- bounds
MaxTx == 2          \* transactions ever created by addTransaction
MaxTime == 2        \* last value of the clock
MaxPeers == 1       \* peer ids that may be registered
MaxProposals == 2   \* proposals registered at the same time
MaxArgLen == 2      \* length of a caller-supplied transaction list
MaxVoteList == 2    \* votes kept in one proposal's own list
MaxLeaves == 4      \* items a MerkleTree is built over
MaxBatch == 2       \* entries handed to verifyBatch
MaxSearchTx == 3    \* transactions of a chain that is searched
MaxCriteria == 2    \* entries of a search criteria object
MaxCandidates == 2  \* candidate chains handed to syncChain
MaxRootTx == 4      \* transactions a Merkle root is computed over
PowModulus == 3     \* number of values of a digest's leading characters

\* --------------------------------------------------------------- constants
consensusThresholdPercent == 67   \* consensusThreshold = 0.67

VARIABLES
    chain,                 \* Blockchain.chain
    pendingTransactions,   \* Blockchain.pendingTransactions
    networkNodes,          \* NodeManager.networkNodes
    pendingValidations,    \* ConsensusEngine.pendingValidations (insertion-ordered Map)
    votes,                 \* ConsensusEngine.votes (insertion-ordered Map of Maps)
    now,                   \* Date.now()
    nextId,                \* next crypto.randomUUID() for a transaction
    ret,                   \* the last call: operation, arguments, outcome
    merkle                 \* a MerkleTree object, the proof last obtained, the last result

vars == <<chain, pendingTransactions, networkNodes, pendingValidations, votes,
          now, nextId, ret, merkle>>

\* ------------------------------------------------------------------ values
nodeId == 0                       \* NodeManager.nodeId (the local node)
PeerIds == 1..MaxPeers
NodeIds == {nodeId} \cup PeerIds

NoId == 0                         \* a transaction object without id
Froms == {"a", ""}
Tos == {"b", ""}
Datas == {"d", ""}

\* A transaction object handed in by a caller: {from, to, data}.
RawTxs == {[id |-> NoId, from |-> f, to |-> t, data |-> d, timestamp |-> 0] :
              f \in Froms, t \in Tos, d \in Datas}

\* ------------------------------------------------------------------ hashing
\* The leading `difficulty` hex characters of the digest of msg, as a number:
\* 0 stands for '0'.repeat(difficulty).
DigestPrefix(msg) ==
    IF msg[1] = "args" /\ Len(msg) = 7
    THEN (msg[2] + msg[3] + Len(msg[4]) + msg[6]) % PowModulus
    ELSE 1

\* crypto.createHash('sha256').update(data).digest('hex')
Sha256(msg) == [pre |-> DigestPrefix(msg), body |-> msg]

\* The string '0' used as the genesis block's previousHash.
ZeroString == [pre |-> 0, body |-> <<"0">>]

\* calculateHash(tx): one object argument, JSON.stringify(tx)
calculateHash(tx) == Sha256(<<"json", tx>>)

\* calculateHash(a + b): the concatenation of two hex digests
calculateHashConcat(a, b) == Sha256(<<"cat", a, b>>)

\* calculateBlockHash(block)
calculateBlockHash(block) ==
    Sha256(<<"args", block.index, block.timestamp, block.transactions,
             block.previousHash, block.nonce, block.merkleRoot>>)

\* One level of the tree with an odd trailing node combined with itself
RECURSIVE MerkleLevelSelfPaired(_)
MerkleLevelSelfPaired(tree) ==
    IF Len(tree) = 0 THEN <<>>
    ELSE IF Len(tree) = 1 THEN <<calculateHashConcat(tree[1], tree[1])>>
    ELSE <<calculateHashConcat(tree[1], tree[2])>> \o
         MerkleLevelSelfPaired(SubSeq(tree, 3, Len(tree)))

\* One level of the tree: adjacent pairs combined, an odd trailing node carried up.
RECURSIVE MerkleLevel(_)
MerkleLevel(tree) ==
    IF Len(tree) = 0 THEN <<>>
    ELSE IF Len(tree) = 1 THEN <<tree[1]>>
    ELSE <<calculateHashConcat(tree[1], tree[2])>> \o MerkleLevel(SubSeq(tree, 3, Len(tree)))

RECURSIVE MerkleReduce(_)
MerkleReduce(tree) ==
    IF Len(tree) > 1 THEN MerkleReduce(MerkleLevel(tree)) ELSE tree[1]

calculateMerkleRoot(transactions) ==
    IF Len(transactions) = 0 THEN Sha256(<<"empty">>)
    ELSE IF Len(transactions) = 1 THEN calculateHash(transactions[1])
    ELSE MerkleReduce([i \in 1..Len(transactions) |-> calculateHash(transactions[i])])

\* proofOfWork(block): the block with the first nonce whose hash meets the target
RECURSIVE proofOfWork(_)
proofOfWork(block) ==
    LET hash == calculateBlockHash(block) IN
    IF hash.pre # 0
    THEN proofOfWork([block EXCEPT !.nonce = @ + 1])
    ELSE [block EXCEPT !.hash = hash]

isValidTransaction(tx) == tx.from # "" /\ tx.to # "" /\ tx.data # ""

\* ------------------------------------------------------------------- ledger
NoHash == ZeroString

getLatestBlock(ch) == ch[Len(ch)]

\* isChainValid() that forgets to recompute the Merkle root
isChainValidNoMerkle(ch) ==
    \A i \in 2..Len(ch) :
        /\ ch[i].hash = calculateBlockHash(ch[i])
        /\ ch[i].previousHash = ch[i - 1].hash

\* isChainValid() on a chain value
isChainValid(ch) ==
    \A i \in 2..Len(ch) :
        /\ ch[i].hash = calculateBlockHash(ch[i])
        /\ ch[i].previousHash = ch[i - 1].hash
        /\ ch[i].merkleRoot = calculateMerkleRoot(ch[i].transactions)

\* The program state as one value, so that an operation can call another.
St == [chain |-> chain, pending |-> pendingTransactions, nodes |-> networkNodes,
       pv |-> pendingValidations, votes |-> votes, nextId |-> nextId]

\* What a call reports: the operation, its arguments and its outcome.  A call
\* that throws has ok = FALSE and the kind of error; the other fields are those
\* of the returned object (absent ones keep these defaults).
NoRet == [op |-> "none", ok |-> TRUE, error |-> "", blockHash |-> NoHash,
          isValid |-> FALSE, node |-> nodeId, consensusReached |-> FALSE,
          yesVotes |-> 0, totalVotes |-> 0, totalNodes |-> 0,
          hasBlock |-> FALSE, removed |-> FALSE, txId |-> NoId]

Throw(s, r, kind) == [st |-> s, ret |-> [r EXCEPT !.ok = FALSE, !.error = kind]]

\* createGenesisBlock() without the test for an existing chain
createGenesisBlockAlways(s, t) ==
    LET genesisBlock ==
            [index |-> 0, timestamp |-> t, transactions |-> <<>>,
             previousHash |-> ZeroString,
             hash |-> Sha256(<<"args", 0, t, <<>>, ZeroString>>),
             nonce |-> 0, merkleRoot |-> calculateMerkleRoot(<<>>)]
    IN [st |-> [s EXCEPT !.chain = Append(@, genesisBlock)],
        ret |-> [NoRet EXCEPT !.op = "createGenesisBlock", !.blockHash = genesisBlock.hash]]

createGenesisBlockOp(s, t) ==
    LET r == [NoRet EXCEPT !.op = "createGenesisBlock"] IN
    IF Len(s.chain) > 0 THEN [st |-> s, ret |-> [r EXCEPT !.blockHash = s.chain[1].hash]]
    ELSE LET genesisBlock ==
                 [index |-> 0, timestamp |-> t, transactions |-> <<>>,
                  previousHash |-> ZeroString,
                  hash |-> Sha256(<<"args", 0, t, <<>>, ZeroString>>),
                  nonce |-> 0, merkleRoot |-> calculateMerkleRoot(<<>>)]
         IN [st |-> [s EXCEPT !.chain = Append(@, genesisBlock)],
             ret |-> [r EXCEPT !.blockHash = genesisBlock.hash]]

\* addTransaction(transaction) without its two validity tests
addTransactionNoValidation(s, tx, t) ==
    [st |-> [s EXCEPT !.pending = Append(@, [tx EXCEPT !.timestamp = t, !.id = s.nextId]),
                      !.nextId = @ + 1],
     ret |-> [NoRet EXCEPT !.op = "addTransaction", !.txId = s.nextId]]

\* addTransaction(transaction) that keeps the id of a transaction that has one
addTransactionKeepsId(s, tx, t) ==
    LET id == IF tx.id # NoId THEN tx.id ELSE s.nextId IN
    [st |-> [s EXCEPT !.pending = Append(@, [tx EXCEPT !.timestamp = t, !.id = id]),
                      !.nextId = @ + 1],
     ret |-> [NoRet EXCEPT !.op = "addTransaction", !.txId = id]]

\* addTransaction(transaction); ret.txId is the id of the returned transaction,
\* the last entry of the pool.
addTransactionOp(s, tx, t) ==
    LET r == [NoRet EXCEPT !.op = "addTransaction"] IN
    IF tx.from = "" \/ tx.to = "" \/ tx.data = "" THEN Throw(s, r, "Validation")
    ELSE IF ~isValidTransaction(tx) THEN Throw(s, r, "Validation")
    ELSE LET st2 == [s EXCEPT !.pending = Append(@, [tx EXCEPT !.timestamp = t, !.id = s.nextId]),
                              !.nextId = @ + 1]
         IN [st |-> st2, ret |-> [r EXCEPT !.txId = st2.pending[Len(st2.pending)].id]]

\* An absent (undefined) or empty-string field of a block.
Absent == [pre |-> 0, body |-> <<>>]

\* A candidate block numbered one too high
NewBlockOffByOne(s, t) ==
    [index |-> Len(s.chain) + 1, timestamp |-> t, transactions |-> s.pending,
     previousHash |-> getLatestBlock(s.chain).hash, nonce |-> 0, hash |-> NoHash,
     merkleRoot |-> calculateMerkleRoot(s.pending)]

\* minePendingTransactions, lines 185-195: the candidate block with its Merkle root
NewBlock(s, t) ==
    [index |-> Len(s.chain), timestamp |-> t, transactions |-> s.pending,
     previousHash |-> getLatestBlock(s.chain).hash, nonce |-> 0, hash |-> NoHash,
     merkleRoot |-> calculateMerkleRoot(s.pending)]

\* Proof of work run before the Merkle root is set
MinedBlockRootAfterPow(s, t) ==
    [proofOfWork([NewBlock(s, t) EXCEPT !.merkleRoot = Absent])
        EXCEPT !.merkleRoot = calculateMerkleRoot(s.pending)]

\* minePendingTransactions, lines 194-198: Merkle root, then proof of work
MinedBlock(s, t) == proofOfWork(NewBlock(s, t))

\* minePendingTransactions without the empty-pool check
minePendingTransactionsNoGuard(s, t) ==
    LET r == [NoRet EXCEPT !.op = "minePendingTransactions"] IN
    IF Len(s.chain) = 0 THEN Throw(s, r, "TypeError")
    ELSE [st |-> [s EXCEPT !.chain = Append(@, MinedBlock(s, t)), !.pending = <<>>],
          ret |-> [r EXCEPT !.hasBlock = TRUE]]

\* minePendingTransactions that puts the mined block in the place of the tip
minePendingTransactionsOverTip(s, t) ==
    LET r == [NoRet EXCEPT !.op = "minePendingTransactions"] IN
    IF Len(s.pending) = 0 THEN Throw(s, r, "EmptyPool")
    ELSE IF Len(s.chain) = 0 THEN Throw(s, r, "TypeError")
    ELSE [st |-> [s EXCEPT !.chain = [@ EXCEPT ![Len(@)] = MinedBlock(s, t)],
                           !.pending = <<>>],
          ret |-> [r EXCEPT !.hasBlock = TRUE]]

minePendingTransactionsOp(s, t) ==
    LET r == [NoRet EXCEPT !.op = "minePendingTransactions"] IN
    IF Len(s.pending) = 0 THEN Throw(s, r, "EmptyPool")
    ELSE IF Len(s.chain) = 0 THEN Throw(s, r, "TypeError")   \* getLatestBlock() is undefined
    ELSE [st |-> [s EXCEPT !.chain = Append(@, MinedBlock(s, t)), !.pending = <<>>],
          ret |-> [r EXCEPT !.hasBlock = TRUE]]

\* ----------------------------------------------------------------- registry
\* getNodeCount() without the local node
getNodeCountPeersOnly(nodes) == Cardinality(nodes)

\* getNodeCount(), lines 53-55: the peers of the registry and the local node
getNodeCount(nodes) == Cardinality(nodes) + 1

\* addNode(nodeId) without the test against the local id
addNodeAlways(s, n) ==
    [st |-> [s EXCEPT !.nodes = @ \cup {n}],
     ret |-> [NoRet EXCEPT !.op = "addNode", !.node = n]]

addNodeOp(s, n) ==
    LET r == [NoRet EXCEPT !.op = "addNode", !.node = n] IN
    IF n # nodeId THEN [st |-> [s EXCEPT !.nodes = @ \cup {n}], ret |-> r]
    ELSE [st |-> s, ret |-> r]

removeNodeOp(s, n) ==
    [st |-> [s EXCEPT !.nodes = @ \ {n}],
     ret |-> [NoRet EXCEPT !.op = "removeNode", !.node = n, !.removed = (n \in s.nodes)]]

\* ------------------------------------------------- insertion-ordered JS Maps
\* A Map is the sequence of its entries [key, val] in insertion order.
MapHas(m, k) == \E i \in 1..Len(m) : m[i].key = k
MapGet(m, k) == m[CHOOSE i \in 1..Len(m) : m[i].key = k].val
MapSet(m, k, v) ==
    IF MapHas(m, k)
    THEN [i \in 1..Len(m) |-> IF m[i].key = k THEN [key |-> k, val |-> v] ELSE m[i]]
    ELSE Append(m, [key |-> k, val |-> v])
MapDeleteTest(e, k) == e.key # k
MapDelete(m, k) == SelectSeq(m, LAMBDA e : MapDeleteTest(e, k))

\* A votes Map(nodeId -> vote) is a function on the ids that voted.
NoVotes == [n \in {} |-> 0]
VotesDelete(vm, n) == [x \in DOMAIN vm \ {n} |-> vm[x]]
VotesSet(vm, n, vote) == [x \in DOMAIN vm \cup {n} |-> IF x = n THEN vote ELSE vm[x]]
YesVotes(vm) == Cardinality({n \in DOMAIN vm : vm[n].isValid})

\* -------------------------------------------------------------- coordinator
\* The threshold taken as two thirds
ConsensusReachedTwoThirds(yesVotes, nodeCount) == 3 * yesVotes >= 2 * nodeCount

\* yesVotes / nodeCount >= this.consensusThreshold
ConsensusReached(yesVotes, nodeCount) ==
    100 * yesVotes >= consensusThresholdPercent * nodeCount

\* validateBlockProposal that accepts no proposal
validateBlockProposalNever(ch, p) == FALSE

\* validateBlockProposal that skips the Merkle root comparison
validateBlockProposalNoRoot(ch, p) ==
    IF \/ p.index < 0 \/ p.timestamp = 0 \/ p.previousHash = Absent
       \/ p.hash = Absent \/ p.merkleRoot = Absent
    THEN FALSE
    ELSE IF \E i \in 1..Len(p.transactions) : ~isValidTransaction(p.transactions[i])
    THEN FALSE
    ELSE IF p.index >= Len(ch)
    THEN IF p.previousHash # getLatestBlock(ch).hash THEN FALSE ELSE TRUE
    ELSE TRUE

\* validateBlockProposal(blockProposal), for a non-empty chain ch
validateBlockProposal(ch, p) ==
    IF \/ p.index < 0 \/ p.timestamp = 0 \/ p.previousHash = Absent
       \/ p.hash = Absent \/ p.merkleRoot = Absent
    THEN FALSE
    ELSE IF \E i \in 1..Len(p.transactions) : ~isValidTransaction(p.transactions[i])
    THEN FALSE
    ELSE IF p.merkleRoot # calculateMerkleRoot(p.transactions)
    THEN FALSE
    ELSE IF p.index >= Len(ch)
    THEN IF p.previousHash # getLatestBlock(ch).hash THEN FALSE ELSE TRUE
    ELSE IF ch[p.index + 1].hash = p.hash THEN TRUE ELSE TRUE

\* validateBlockProposal, lines 142-162: the tests a block object passes before
\* the chain is looked at
PassesBlockTests(p) ==
    /\ ~(\/ p.index < 0 \/ p.timestamp = 0 \/ p.previousHash = Absent
         \/ p.hash = Absent \/ p.merkleRoot = Absent)
    /\ ~\E i \in 1..Len(p.transactions) : ~isValidTransaction(p.transactions[i])
    /\ p.merkleRoot = calculateMerkleRoot(p.transactions)

\* validateBlockProposal(blockProposal) as a call: the argument is null, an
\* object without transactions, or a block object; the outcome is "true",
\* "false" or "throws" (latestBlock.hash of an empty chain, line 170).
validateBlockProposalCall(ch, a) ==
    IF ~a.given THEN "false"
    ELSE IF ~a.hasTransactions THEN "false"
    ELSE IF Len(ch) = 0
    THEN IF PassesBlockTests(a.block) THEN "throws" ELSE "false"
    ELSE IF validateBlockProposal(ch, a.block) THEN "true" ELSE "false"

signVote(blockHash, isValid, n) == Sha256(<<"vote", blockHash, isValid, n>>)

\* voteOnBlock without the already-voted check
VoteErrorNoDuplicateCheck(s, blockHash, isValid) ==
    IF ~MapHas(s.pv, blockHash) THEN "NotFound"
    ELSE IF isValid /\ ~validateBlockProposal(s.chain, MapGet(s.pv, blockHash).proposal)
    THEN "InvalidVote"
    ELSE ""

\* voteOnBlock, lines 207-222: the error the call throws before recording, or ""
VoteError(s, blockHash, isValid) ==
    IF ~MapHas(s.pv, blockHash) THEN "NotFound"
    ELSE IF nodeId \in DOMAIN MapGet(s.votes, blockHash) THEN "DuplicateVote"
    ELSE IF isValid /\ ~validateBlockProposal(s.chain, MapGet(s.pv, blockHash).proposal)
    THEN "InvalidVote"
    ELSE ""

\* Mining on a no vote instead of a yes vote
ShouldMineNegated(consensusReached, isValid) == consensusReached /\ ~isValid

\* voteOnBlock, line 244: whether the call goes on to mine
ShouldMine(consensusReached, isValid) == consensusReached /\ isValid

\* The mining error passed on to the caller
AfterFailedMineRethrow(s2, r2) == Throw(s2, r2, "EmptyPool")

\* voteOnBlock, lines 259-271: mining threw; the vote stays and the call returns
AfterFailedMine(s2, r2) == [st |-> s2, ret |-> r2]

\* voteOnBlock that drops the proposal and its votes once it has mined
AfterVoteMineCleared(s, blockHash) ==
    [s EXCEPT !.pv = MapDelete(@, blockHash), !.votes = MapDelete(@, blockHash)]

\* voteOnBlock, lines 249-251: after mining the proposal is kept for more votes.
AfterVoteMine(s, blockHash) == s

voteOnBlockOp(s, blockHash, isValid, t) ==
    LET r == [NoRet EXCEPT !.op = "voteOnBlock", !.blockHash = blockHash,
                           !.isValid = isValid, !.node = nodeId] IN
    IF VoteError(s, blockHash, isValid) # "" THEN Throw(s, r, VoteError(s, blockHash, isValid))
    ELSE
    LET proposal == MapGet(s.pv, blockHash)
        votesMap == MapGet(s.votes, blockHash)
        vote == [nodeId |-> nodeId, blockHash |-> blockHash, isValid |-> isValid,
                 timestamp |-> t, signature |-> signVote(blockHash, isValid, nodeId)]
        votesMap2 == VotesSet(votesMap, nodeId, vote)
        s2 == [s EXCEPT !.votes = MapSet(@, blockHash, votesMap2),
                        !.pv = MapSet(@, blockHash,
                                      [proposal EXCEPT !.votes = Append(@, vote)])]
        nodeCount == getNodeCount(s.nodes)
        voteCount == Cardinality(DOMAIN votesMap2)
        yesVotes == YesVotes(votesMap2)
        consensusReached == ConsensusReached(yesVotes, nodeCount)
        r2 == [r EXCEPT !.consensusReached = consensusReached, !.totalVotes = voteCount,
                        !.yesVotes = yesVotes, !.totalNodes = nodeCount]
        mined == minePendingTransactionsOp(s2, t)
    IN
    IF ShouldMine(consensusReached, isValid)
    THEN IF validateBlockProposal(s2.chain, proposal.proposal)
         THEN IF mined.ret.ok
              THEN [st |-> AfterVoteMine(mined.st, blockHash),
                    ret |-> [r2 EXCEPT !.consensusReached = TRUE, !.hasBlock = TRUE]]
              ELSE AfterFailedMine(s2, r2)
         ELSE [st |-> s2, ret |-> r2]
    ELSE [st |-> s2, ret |-> r2]

\* The merge of proposeBlock with pooled transactions matched by id alone
RECURSIVE MergeTransactionsByIdOnly(_, _, _, _)
MergeTransactionsByIdOnly(s, transactions, i, t) ==
    IF i > Len(transactions) THEN s
    ELSE LET tx == transactions[i]
             exists == \E j \in 1..Len(s.pending) : s.pending[j].id = tx.id
         IN MergeTransactionsByIdOnly(IF exists THEN s ELSE addTransactionOp(s, tx, t).st,
                                      transactions, i + 1, t)

\* proposeBlock, lines 43-54: each provided transaction that matches no pooled
\* one by id or by {from, to, data} is added to the pool.
RECURSIVE MergeTransactions(_, _, _, _)
MergeTransactions(s, transactions, i, t) ==
    IF i > Len(transactions) THEN s
    ELSE LET tx == transactions[i]
             exists == \E j \in 1..Len(s.pending) :
                          \/ s.pending[j].id = tx.id
                          \/ /\ s.pending[j].from = tx.from
                             /\ s.pending[j].to = tx.to
                             /\ s.pending[j].data = tx.data
         IN MergeTransactions(IF exists THEN s ELSE addTransactionOp(s, tx, t).st,
                              transactions, i + 1, t)

\* proposeBlock that validates only the first transaction of its argument
ProposeErrorFirstOnly(transactions) ==
    IF Len(transactions) = 0 THEN "EmptyInput"
    ELSE IF ~isValidTransaction(transactions[1]) THEN "InvalidTransaction"
    ELSE ""

\* proposeBlock, lines 26-36: the error thrown before anything is touched
ProposeError(transactions) ==
    IF Len(transactions) = 0 THEN "EmptyInput"
    ELSE IF \E i \in 1..Len(transactions) : ~isValidTransaction(transactions[i])
    THEN "InvalidTransaction"
    ELSE ""

proposeBlockOp(s, transactions, t) ==
    LET r == [NoRet EXCEPT !.op = "proposeBlock"] IN
    IF ProposeError(transactions) # "" THEN Throw(s, r, ProposeError(transactions))
    ELSE
    LET s1 == MergeTransactions(s, transactions, 1, t)
        pendingTxs == IF Len(s1.pending) > 0 THEN s1.pending ELSE transactions
    IN
    IF Len(pendingTxs) = 0 THEN Throw(s1, r, "EmptyInput")
    ELSE IF Len(s1.chain) = 0 THEN Throw(s1, r, "TypeError")   \* latestBlock is undefined
    ELSE
    LET unhashed == [index |-> Len(s1.chain), timestamp |-> t,
                     transactions |-> pendingTxs,
                     previousHash |-> getLatestBlock(s1.chain).hash,
                     nonce |-> 0, hash |-> NoHash,
                     merkleRoot |-> calculateMerkleRoot(pendingTxs)]
        blockProposal == [unhashed EXCEPT !.hash = calculateBlockHash(unhashed)]
        s2 == [s1 EXCEPT
                 !.pv = MapSet(@, blockProposal.hash,
                               [proposal |-> blockProposal, votes |-> <<>>, createdAt |-> t]),
                 !.votes = MapSet(@, blockProposal.hash, NoVotes)]
        isValid == validateBlockProposal(s2.chain, blockProposal)
        voted == voteOnBlockOp(s2, blockProposal.hash, TRUE, t)
    IN
    IF isValid /\ ~voted.ret.ok /\ voted.ret.error # "DuplicateVote"
    THEN Throw(s2, r, voted.ret.error)
    ELSE
    LET s3 == IF isValid THEN voted.st ELSE s2
        nodeCount == getNodeCount(s3.nodes)
        votesMap == IF MapHas(s3.votes, blockProposal.hash)
                    THEN MapGet(s3.votes, blockProposal.hash) ELSE NoVotes
        yesVotes == YesVotes(votesMap)
    IN [st |-> s3,
        ret |-> [r EXCEPT !.consensusReached = ConsensusReached(yesVotes, nodeCount),
                          !.blockHash = blockProposal.hash,
                          !.totalVotes = Cardinality(DOMAIN votesMap),
                          !.yesVotes = yesVotes, !.totalNodes = nodeCount]]

checkConsensusOp(s, blockHash) ==
    LET r == [NoRet EXCEPT !.op = "checkConsensus", !.blockHash = blockHash] IN
    IF ~MapHas(s.pv, blockHash) THEN [st |-> s, ret |-> [r EXCEPT !.error = "NotFound"]]
    ELSE IF ~MapHas(s.votes, blockHash) THEN [st |-> s, ret |-> [r EXCEPT !.error = "NoVotes"]]
    ELSE
    LET votesMap == MapGet(s.votes, blockHash)
        nodeCount == getNodeCount(s.nodes)
        yesVotes == YesVotes(votesMap)
    IN [st |-> s,
        ret |-> [r EXCEPT !.consensusReached = ConsensusReached(yesVotes, nodeCount),
                          !.totalVotes = Cardinality(DOMAIN votesMap),
                          !.yesVotes = yesVotes, !.totalNodes = nodeCount]]

\* A mined proposal's bookkeeping with only the votes entry deleted
ClearBookkeepingVotesOnly(s, blockHash) == [s EXCEPT !.votes = MapDelete(@, blockHash)]

\* handleNodeFailure, lines 472-473: the mined proposal and its votes are deleted.
ClearBookkeeping(s, blockHash) ==
    [s EXCEPT !.pv = MapDelete(@, blockHash), !.votes = MapDelete(@, blockHash)]

\* The loop of handleNodeFailure deleting a proposal at quorum whether or not
\* its mining attempt succeeded
RECURSIVE RecheckProposalsClearsAnyway(_, _, _, _)
RecheckProposalsClearsAnyway(s, n, i, t) ==
    IF i > Len(s.votes) THEN s
    ELSE
    LET blockHash == s.votes[i].key
        votesMap == VotesDelete(s.votes[i].val, n)
        s2 == [s EXCEPT !.votes[i].val = votesMap]
        mined == minePendingTransactionsOp(s2, t)
    IN
    IF /\ ConsensusReached(YesVotes(votesMap), getNodeCount(s2.nodes))
       /\ MapHas(s2.pv, blockHash)
       /\ validateBlockProposal(s2.chain, MapGet(s2.pv, blockHash).proposal)
    THEN RecheckProposalsClearsAnyway(
             ClearBookkeeping(IF mined.ret.ok THEN mined.st ELSE s2, blockHash), n, i, t)
    ELSE RecheckProposalsClearsAnyway(s2, n, i + 1, t)

\* handleNodeFailure, lines 459-479: the loop over this.votes.entries(), at entry i.
RECURSIVE RecheckProposals(_, _, _, _)
RecheckProposals(s, n, i, t) ==
    IF i > Len(s.votes) THEN s
    ELSE
    LET blockHash == s.votes[i].key
        votesMap == VotesDelete(s.votes[i].val, n)
        s2 == [s EXCEPT !.votes[i].val = votesMap]
        nodeCount == getNodeCount(s2.nodes)
        yesVotes == YesVotes(votesMap)
        mined == minePendingTransactionsOp(s2, t)
    IN
    IF /\ ConsensusReached(yesVotes, nodeCount)
       /\ MapHas(s2.pv, blockHash)
       /\ validateBlockProposal(s2.chain, MapGet(s2.pv, blockHash).proposal)
       /\ mined.ret.ok
    THEN RecheckProposals(ClearBookkeeping(mined.st, blockHash), n, i, t)
    ELSE RecheckProposals(s2, n, i + 1, t)

handleNodeFailureOp(s, n, t) ==
    LET removed == removeNodeOp(s, n)
        s2 == RecheckProposals(removed.st, n, 1, t)
    IN [st |-> s2,
        ret |-> [NoRet EXCEPT !.op = "handleNodeFailure", !.node = n,
                              !.removed = removed.ret.removed,
                              !.hasBlock = Len(s2.chain) > Len(s.chain),
                              !.totalNodes = getNodeCount(s2.nodes)]]

\* --------------------------------------------------------------- MerkleTree
\* JavaScript values handed to the tree: a string that is no JSON text, an
\* object (its keys in insertion order), a string holding the JSON text of an
\* object, a string of 64 hex characters (the characters of digest d), null.
StringValue(str) == [t |-> "string", s |-> str, kv |-> <<>>, d |-> Absent]
ObjectValue(pairs) == [t |-> "object", s |-> "", kv |-> pairs, d |-> Absent]
JsonText(pairs) == [t |-> "jsontext", s |-> "", kv |-> pairs, d |-> Absent]
HexString(digest) == [t |-> "hex", s |-> "", kv |-> <<>>, d |-> digest]
Null == [t |-> "null", s |-> "", kv |-> <<>>, d |-> Absent]

\* JavaScript truthiness of a value: null and the empty string are falsy.
Truthy(x) == ~(x.t = "null" \/ (x.t = "string" /\ x.s = ""))

\* /^[a-f0-9]{64}$/i.test(data)
IsHexHash(x) == x.t = "hex"

\* Object.keys(obj).sort(): the order of the key names used in the model
KeyOrder == <<"a", "b">>
KeyRank(k) == CHOOSE i \in 1..Len(KeyOrder) : KeyOrder[i] = k

\* normalizeObject(obj): the entries by ascending key
normalizeObject(pairs) ==
    LET pos(i) == Cardinality({j \in 1..Len(pairs) : KeyRank(pairs[j][1]) <= KeyRank(pairs[i][1])})
    IN [n \in 1..Len(pairs) |-> pairs[CHOOSE i \in 1..Len(pairs) : pos(i) = n]]

\* hash(data): JSON text and objects are normalized and stringified, any other
\* string is hashed as it is.
hash(data) ==
    IF data.t = "object" \/ data.t = "jsontext"
    THEN Sha256(<<"mjson", normalizeObject(data.kv)>>)
    ELSE IF data.t = "hex" THEN Sha256(<<"mhex", data.d>>)
    ELSE Sha256(<<"mtext", data.s>>)

\* hash(left + right) in buildTree: the concatenation of two hex digests is no
\* JSON text (save for digests made of decimal digits only), hashed as it is.
hashPair(left, right) == Sha256(<<"mcat", left, right>>)

\* buildTree, lines 96-109: the next level, from position i of currentLevel on
RECURSIVE nextLevel(_, _)
nextLevel(currentLevel, i) ==
    IF i > Len(currentLevel) THEN <<>>
    ELSE IF i + 1 <= Len(currentLevel)
         THEN <<hashPair(currentLevel[i], currentLevel[i + 1])>> \o nextLevel(currentLevel, i + 2)
         ELSE <<hashPair(currentLevel[i], currentLevel[i])>> \o nextLevel(currentLevel, i + 2)

\* buildTree, lines 93-113: the levels from currentLevel up to the root
RECURSIVE buildLevels(_)
buildLevels(currentLevel) ==
    IF Len(currentLevel) > 1
    THEN <<currentLevel>> \o buildLevels(nextLevel(currentLevel, 1))
    ELSE <<currentLevel>>

\* The tree object without a proof or a result.
EmptyTree == [leaves |-> <<>>, levels |-> <<>>, hasRoot |-> FALSE, root |-> Absent]

\* buildTree(data)
buildTree(data) ==
    IF Len(data) = 0 THEN EmptyTree
    ELSE LET leaves == [i \in 1..Len(data) |-> hash(data[i])]
             levels == buildLevels(leaves)
         IN [leaves |-> leaves, levels |-> levels, hasRoot |-> TRUE,
             root |-> levels[Len(levels)][1]]

\* A proof object {leaf, path, root}; present = FALSE is a missing proof, hasLeaf,
\* hasRoot = FALSE a missing field, pathKind "missing" a missing path and
\* "notalist" a path that is a truthy value other than an array.
NoProof == [present |-> FALSE, hasLeaf |-> FALSE, leaf |-> Absent, pathKind |-> "missing",
            path |-> <<>>, hasRoot |-> FALSE, root |-> Absent]

\* getProof, lines 148: this.leaves.findIndex(hash => hash === leafHash), from 0; -1
findIndex(leaves, leafHash) ==
    IF \E i \in 1..Len(leaves) : leaves[i] = leafHash
    THEN (CHOOSE i \in 1..Len(leaves) :
              leaves[i] = leafHash /\ \A j \in 1..(i - 1) : leaves[j] # leafHash) - 1
    ELSE -1

\* A path that gets no entry where the node has no sibling
RECURSIVE proofPathSkipsUnpaired(_, _, _)
proofPathSkipsUnpaired(levels, currentIndex, currentLevel) ==
    IF ~(currentLevel < Len(levels) - 1) THEN <<>>
    ELSE LET level == levels[currentLevel + 1]
             isLeft == currentIndex % 2 = 0
             siblingIndex == IF isLeft THEN currentIndex + 1 ELSE currentIndex - 1
             position == IF isLeft THEN "right" ELSE "left"
             rest == proofPathSkipsUnpaired(levels, currentIndex \div 2, currentLevel + 1)
         IN IF siblingIndex < Len(level)
            THEN <<[hasHash |-> TRUE, hash |-> level[siblingIndex + 1], position |-> position]>>
                 \o rest
            ELSE rest

\* getProof, lines 162-185: the path from currentIndex (from 0) at currentLevel
\* (from 0) up to the level below the root
RECURSIVE proofPath(_, _, _)
proofPath(levels, currentIndex, currentLevel) ==
    IF ~(currentLevel < Len(levels) - 1) THEN <<>>
    ELSE LET level == levels[currentLevel + 1]
             isLeft == currentIndex % 2 = 0
             siblingIndex == IF isLeft THEN currentIndex + 1 ELSE currentIndex - 1
             position == IF isLeft THEN "right" ELSE "left"
             node == IF siblingIndex < Len(level)
                     THEN [hasHash |-> TRUE, hash |-> level[siblingIndex + 1], position |-> position]
                     ELSE [hasHash |-> TRUE, hash |-> level[currentIndex + 1], position |-> position]
         IN <<node>> \o proofPath(levels, currentIndex \div 2, currentLevel + 1)

\* The leaf hash getProof and verifyProof take for data: a 64-character hex string
\* is used as the hash itself, anything else is hashed.
leafHashOf(data) == IF IsHexHash(data) THEN data.d ELSE hash(data)

\* getProof(data) on a tree object
getProof(tree, data) ==
    IF ~tree.hasRoot THEN [ok |-> FALSE, error |-> "TreeIsEmpty", proof |-> NoProof]
    ELSE LET leafHash == leafHashOf(data)
             leafIndex == findIndex(tree.leaves, leafHash)
         IN IF leafIndex = -1 THEN [ok |-> FALSE, error |-> "NotFound", proof |-> NoProof]
            ELSE [ok |-> TRUE, error |-> "",
                  proof |-> [present |-> TRUE, hasLeaf |-> TRUE, leaf |-> leafHash,
                             pathKind |-> "list",
                             path |-> proofPath(tree.levels, leafIndex, 0),
                             hasRoot |-> TRUE, root |-> tree.root]]

\* verifyProof, lines 236-250: the hash after replaying the path from entry i on;
\* node.hash.toLowerCase() raises on an entry without hash.
RECURSIVE replayPath(_, _, _)
replayPath(path, i, currentHash) ==
    IF i > Len(path) THEN [throws |-> FALSE, hash |-> currentHash]
    ELSE IF ~path[i].hasHash THEN [throws |-> TRUE, hash |-> currentHash]
    ELSE IF path[i].position = "left"
         THEN replayPath(path, i + 1, Sha256(<<"mcat", path[i].hash, currentHash>>))
         ELSE replayPath(path, i + 1, Sha256(<<"mcat", currentHash, path[i].hash>>))

\* verifyProof, lines 216-233: the leaf hash is checked against proof.leaf when data
\* is truthy; proof.leaf.toLowerCase() raises when the proof has no leaf.
leafCheck(data, proof) ==
    IF Truthy(data)
    THEN IF ~proof.hasLeaf THEN "throws"
         ELSE IF leafHashOf(data) # proof.leaf THEN "false" ELSE "ok"
    ELSE IF ~proof.hasLeaf THEN "throws" ELSE "ok"

\* verifyProof(data, proof, root): "true", "false", or "throws" for a raised
\* TypeError; root = Absent is an omitted (or falsy) root.
verifyProof(data, proof, root) ==
    IF ~proof.present \/ proof.pathKind = "missing" \/ ~proof.hasRoot THEN "false"
    ELSE LET expectedRoot == IF root # Absent THEN root ELSE proof.root
             replayed == replayPath(proof.path, 1, proof.leaf)
         IN IF leafCheck(data, proof) # "ok" THEN leafCheck(data, proof)
            ELSE IF proof.pathKind = "notalist" THEN "throws"
            ELSE IF replayed.throws THEN "throws"
            ELSE IF replayed.hash = expectedRoot THEN "true" ELSE "false"

\* The loop without the test for missing data
RECURSIVE verifyBatchFromNoDataCheck(_, _)
verifyBatchFromNoDataCheck(proofs, i) ==
    IF i > Len(proofs) THEN "true"
    ELSE IF ~proofs[i].proof.present THEN "false"
    ELSE LET isValid == verifyProof(proofs[i].data, proofs[i].proof,
                                    IF proofs[i].root # Absent THEN proofs[i].root
                                    ELSE proofs[i].proof.root)
         IN IF isValid = "true" THEN verifyBatchFromNoDataCheck(proofs, i + 1) ELSE isValid

\* verifyBatch, lines 269-283: the loop from entry i on
RECURSIVE verifyBatchFrom(_, _)
verifyBatchFrom(proofs, i) ==
    IF i > Len(proofs) THEN "true"
    ELSE IF ~Truthy(proofs[i].data) \/ ~proofs[i].proof.present THEN "false"
    ELSE LET isValid == verifyProof(proofs[i].data, proofs[i].proof,
                                    IF proofs[i].root # Absent THEN proofs[i].root
                                    ELSE proofs[i].proof.root)
         IN IF isValid = "true" THEN verifyBatchFrom(proofs, i + 1) ELSE isValid

\* verifyBatch(proofs) on an array of {data, proof, root}
verifyBatch(proofs) == IF Len(proofs) = 0 THEN "false" ELSE verifyBatchFrom(proofs, 1)

\* new MerkleTree(data) next to the data it was built over, with no proof obtained
\* and no call made yet
NewMerkleTree(data) ==
    LET tree == buildTree(data)
    IN [data |-> data, leaves |-> tree.leaves, levels |-> tree.levels,
        hasRoot |-> tree.hasRoot, root |-> tree.root,
        proof |-> NoProof, out |-> [op |-> "none", result |-> ""]]

\* ------------------------------------------------------- searchTransactions
\* Values a property path resolves to, and criteria values: a string, a number,
\* an object (named by its text), undefined.
StringOf(str) == [t |-> "string", s |-> str, n |-> 0]
NumberOf(num) == [t |-> "number", s |-> "", n |-> num]
ObjectOf(name) == [t |-> "object", s |-> name, n |-> 0]
Undefined == [t |-> "undefined", s |-> "", n |-> 0]

\* Transaction data that is an object {action: ...}, named by its text.
DataObjects == {"{action:grant}", "{action:deny}"}
ActionOf(data) == IF data = "{action:grant}" THEN "grant" ELSE "deny"

\* The stored transaction as a JavaScript object value.
TxObject(tx) == [t |-> "tx", s |-> "", n |-> 0, tx |-> tx]

\* k in txValue, for an object value
HasProperty(txValue, k) ==
    IF txValue.t = "tx" THEN k \in {"from", "to", "data", "timestamp", "id"}
    ELSE txValue.t = "object" /\ k = "action"

\* txValue[k], for a property the object has
Property(txValue, k) ==
    IF txValue.t = "tx"
    THEN IF k = "from" THEN StringOf(txValue.tx.from)
         ELSE IF k = "to" THEN StringOf(txValue.tx.to)
         ELSE IF k = "data"
              THEN IF txValue.tx.data \in DataObjects THEN ObjectOf(txValue.tx.data)
                   ELSE StringOf(txValue.tx.data)
         ELSE IF k = "timestamp" THEN NumberOf(txValue.tx.timestamp)
         ELSE NumberOf(txValue.tx.id)
    ELSE StringOf(ActionOf(txValue.s))

\* searchTransactions, lines 343-350: the walk along the split key from segment i
RECURSIVE ResolvePath(_, _, _)
ResolvePath(txValue, keys, i) ==
    IF i > Len(keys) THEN txValue
    ELSE IF txValue.t \in {"tx", "object"} /\ HasProperty(txValue, keys[i])
         THEN ResolvePath(Property(txValue, keys[i]), keys, i + 1)
         ELSE Undefined

\* A match that needs only the first criterion to hold
RECURSIVE TxMatchesFirstOnly(_, _, _)
TxMatchesFirstOnly(tx, criteria, i) ==
    IF i > Len(criteria) \/ i > 1 THEN TRUE
    ELSE IF ResolvePath(TxObject(tx), criteria[i].key, 1) # criteria[i].value THEN FALSE
    ELSE TxMatchesFirstOnly(tx, criteria, i + 1)

\* searchTransactions, lines 339-357: the loop over Object.entries(criteria) from
\* entry i; txValue !== value is identity for objects, and no criteria value is
\* the stored object itself.
RECURSIVE TxMatches(_, _, _)
TxMatches(tx, criteria, i) ==
    IF i > Len(criteria) THEN TRUE
    ELSE LET txValue == ResolvePath(TxObject(tx), criteria[i].key, 1) IN
         IF txValue.t = "object" \/ txValue # criteria[i].value THEN FALSE
         ELSE TxMatches(tx, criteria, i + 1)

\* searchTransactions, lines 337-367: the results of one block, from transaction j
RECURSIVE SearchBlock(_, _, _)
SearchBlock(block, criteria, j) ==
    IF j > Len(block.transactions) THEN <<>>
    ELSE (IF TxMatches(block.transactions[j], criteria, 1)
          THEN <<[tx |-> block.transactions[j], blockIndex |-> block.index,
                  blockHash |-> block.hash, blockTimestamp |-> block.timestamp]>>
          ELSE <<>>) \o SearchBlock(block, criteria, j + 1)

\* searchTransactions, lines 336-368: the results from block b of the chain on
RECURSIVE SearchChain(_, _, _)
SearchChain(ch, criteria, b) ==
    IF b > Len(ch) THEN <<>>
    ELSE SearchBlock(ch[b], criteria, 1) \o SearchChain(ch, criteria, b + 1)

\* searchTransactions(criteria)
searchTransactionsOp(s, criteria) ==
    [st |-> s, ret |-> [NoRet EXCEPT !.op = "searchTransactions"],
     results |-> SearchChain(s.chain, criteria, 1)]

\* ------------------------------------------------------------------ actions
\* What the state keeps of the last call's result (hasBlock: the call appended a
\* block).
Observed(r) == [op |-> r.op, ok |-> r.ok, error |-> r.error,
                consensusReached |-> r.consensusReached, hasBlock |-> r.hasBlock]

Apply(r) ==
    /\ r.st.nextId <= MaxTx + 1
    /\ Len(r.st.pv) <= MaxProposals
    /\ \A i \in 1..Len(r.st.pv) : Len(r.st.pv[i].val.votes) <= MaxVoteList
    /\ chain' = r.st.chain
    /\ pendingTransactions' = r.st.pending
    /\ networkNodes' = r.st.nodes
    /\ pendingValidations' = r.st.pv
    /\ votes' = r.st.votes
    /\ nextId' = r.st.nextId
    /\ ret' = Observed(r.ret)
    /\ UNCHANGED <<now, merkle>>

\* Transactions a caller can hold: new objects, and those of the pool and chain.
KnownTxs ==
    {pendingTransactions[i] : i \in 1..Len(pendingTransactions)} \cup
    UNION {{chain[b].transactions[i] : i \in 1..Len(chain[b].transactions)} :
              b \in 1..Len(chain)}

\* One transaction object that isValidTransaction rejects stands for all of them.
ListTxs ==
    {tx \in RawTxs : tx.to # "" /\ tx.data # ""} \cup KnownTxs

TxLists ==
    {pendingTransactions} \cup UNION {[1..k -> ListTxs] : k \in 0..MaxArgLen}

KnownHashes ==
    {pendingValidations[i].key : i \in 1..Len(pendingValidations)} \cup {Sha256(<<"unknown">>)}

Init ==
    /\ chain = <<>>
    /\ pendingTransactions = <<>>
    /\ networkNodes = {}
    /\ pendingValidations = <<>>
    /\ votes = <<>>
    /\ now = 1
    /\ nextId = 1
    /\ ret = Observed(NoRet)
    /\ merkle = NewMerkleTree(<<>>)

Tick == now < MaxTime /\ now' = now + 1
        /\ UNCHANGED <<chain, pendingTransactions, networkNodes, pendingValidations,
                       votes, nextId, ret, merkle>>

CreateGenesisBlock == Apply(createGenesisBlockOp(St, now))

AddTransaction == \E tx \in RawTxs : Apply(addTransactionOp(St, tx, now))

MinePendingTransactions == Apply(minePendingTransactionsOp(St, now))

AddNode == \E n \in NodeIds : Apply(addNodeOp(St, n))

RemoveNode == \E n \in NodeIds : Apply(removeNodeOp(St, n))

ProposeBlock == \E txs \in TxLists : Apply(proposeBlockOp(St, txs, now))

VoteOnBlock ==
    \E h \in KnownHashes, isValid \in BOOLEAN : Apply(voteOnBlockOp(St, h, isValid, now))

CheckConsensus == \E h \in KnownHashes : Apply(checkConsensusOp(St, h))

HandleNodeFailure == \E n \in NodeIds : Apply(handleNodeFailureOp(St, n, now))

Next ==
    \/ Tick
    \/ CreateGenesisBlock
    \/ AddTransaction
    \/ MinePendingTransactions
    \/ AddNode
    \/ RemoveNode
    \/ ProposeBlock
    \/ VoteOnBlock
    \/ CheckConsensus
    \/ HandleNodeFailure

Spec == Init /\ [][Next]_vars

\* proposeBlock returns the stored proposal object itself (result.block): a
\* caller that holds it overwrites its merkleRoot.
TamperProposal ==
    /\ \E i \in 1..Len(pendingValidations) :
          pendingValidations' =
              [pendingValidations EXCEPT ![i].val.proposal.merkleRoot = Sha256(<<"tampered">>)]
    /\ ret' = Observed([NoRet EXCEPT !.op = "tamper"])
    /\ UNCHANGED <<chain, pendingTransactions, networkNodes, votes, now, nextId, merkle>>

\* The public methods and the caller's overwrite, all within one clock reading
\* (voteOnBlock's checks read no timestamp).
NextTamper ==
    \/ CreateGenesisBlock
    \/ AddTransaction
    \/ MinePendingTransactions
    \/ AddNode
    \/ RemoveNode
    \/ ProposeBlock
    \/ VoteOnBlock
    \/ CheckConsensus
    \/ HandleNodeFailure
    \/ TamperProposal

SpecTamper == Init /\ [][NextTamper]_vars

\* ------------------------------------------------------- MerkleTree actions
\* Items a tree is built over: plain strings, the empty string, one object and
\* the JSON text of the same object with its keys in another order, and a string
\* of 64 hex characters (the digest of "record1").
Items ==
    {StringValue("record1"), StringValue("record2"), StringValue(""),
     ObjectValue(<< <<"b", 2>>, <<"a", 1>> >>), JsonText(<< <<"a", 1>>, <<"b", 2>> >>),
     HexString(hash(StringValue("record1")))}

ItemLists == UNION {[1..n -> Items] : n \in 0..MaxLeaves}

\* Data handed to getProof and verifyProof: the items, an item of no tree, null.
DataArgs == Items \cup {StringValue("tampered"), Null}

\* The root of another tree.
OtherRoot == buildTree(<<StringValue("tampered")>>).root

\* Roots handed to verifyProof: none, the tree's root, the root of another tree.
RootArgs == {Absent, OtherRoot} \cup (IF merkle.hasRoot THEN {merkle.root} ELSE {})

\* Proof p with a missing part: no proof at all, no path, no root, no leaf, a path
\* that is no array, a first path entry without hash.
Malformed(p) ==
    {NoProof,
     [p EXCEPT !.pathKind = "missing", !.path = <<>>],
     [p EXCEPT !.hasRoot = FALSE, !.root = Absent],
     [p EXCEPT !.hasLeaf = FALSE, !.leaf = Absent],
     [p EXCEPT !.pathKind = "notalist", !.path = <<>>]} \cup
    (IF Len(p.path) > 0
     THEN {[p EXCEPT !.path[1] = [hasHash |-> FALSE, hash |-> Absent,
                                   position |-> p.path[1].position]]}
     ELSE {})

ProofArgs == {merkle.proof} \cup Malformed(merkle.proof)

\* Entries {data, proof, root} handed to verifyBatch.
BatchEntries ==
    {[data |-> x, proof |-> p, root |-> r] :
        x \in {StringValue("record1"), StringValue(""), StringValue("tampered")},
        p \in {merkle.proof, NoProof, [merkle.proof EXCEPT !.hasLeaf = FALSE, !.leaf = Absent]},
        r \in {Absent} \cup (IF merkle.hasRoot THEN {merkle.root} ELSE {})}

Batches == UNION {[1..n -> BatchEntries] : n \in 0..MaxBatch}

LedgerIdle ==
    UNCHANGED <<chain, pendingTransactions, networkNodes, pendingValidations, votes,
                now, nextId, ret>>

InitMerkle ==
    /\ chain = <<>>
    /\ pendingTransactions = <<>>
    /\ networkNodes = {}
    /\ pendingValidations = <<>>
    /\ votes = <<>>
    /\ now = 1
    /\ nextId = 1
    /\ ret = Observed(NoRet)
    /\ \E data \in ItemLists : merkle = NewMerkleTree(data)

GetProof ==
    /\ \E x \in DataArgs :
          LET r == getProof(merkle, x) IN
          merkle' = [merkle EXCEPT !.proof = IF r.ok THEN r.proof ELSE @,
                                   !.out = [op |-> "getProof",
                                            result |-> IF r.ok THEN "ok" ELSE r.error]]
    /\ LedgerIdle

VerifyProof ==
    /\ \E x \in DataArgs, p \in ProofArgs, r \in RootArgs :
          merkle' = [merkle EXCEPT !.out = [op |-> "verifyProof",
                                            result |-> verifyProof(x, p, r)]]
    /\ LedgerIdle

VerifyBatch ==
    /\ \E proofs \in Batches :
          merkle' = [merkle EXCEPT !.out = [op |-> "verifyBatch",
                                            result |-> verifyBatch(proofs)]]
    /\ LedgerIdle

NextMerkle ==
    \/ GetProof
    \/ VerifyProof
    \/ VerifyBatch

SpecMerkle == InitMerkle /\ [][NextMerkle]_vars


\* ------------------------------------------------ searchTransactions actions
\* Transactions of a searched chain: two senders, data a string or an object.
SearchTxs ==
    {[id |-> NoId, from |-> f, to |-> "b", data |-> d, timestamp |-> 0] :
        f \in {"a", "c"}, d \in {"d", "{action:grant}"}}

\* Entries of a criteria object: top-level keys, a dotted path into data, a path
\* into a string, a key no transaction has.
CriteriaEntries ==
    {[key |-> <<"from">>, value |-> StringOf(v)] : v \in {"a", "c"}} \cup
    {[key |-> <<"to">>, value |-> StringOf(v)] : v \in {"b", "x"}} \cup
    {[key |-> <<"data", "action">>, value |-> StringOf(v)] : v \in {"grant", "deny"}} \cup
    {[key |-> <<"data">>, value |-> StringOf("d")],
     [key |-> <<"to", "length">>, value |-> StringOf("b")],
     [key |-> <<"nope">>, value |-> Undefined],
     [key |-> <<"id">>, value |-> NumberOf(1)]}

\* Object.entries(criteria): entries with distinct keys
CriteriaArgs ==
    {c \in UNION {[1..n -> CriteriaEntries] : n \in 0..MaxCriteria} :
        \A i, j \in 1..Len(c) : i # j => c[i].key # c[j].key}

\* The state of a new Blockchain next to a new coordinator and registry.
NewState == [chain |-> <<>>, pending |-> <<>>, nodes |-> {}, pv |-> <<>>,
             votes |-> <<>>, nextId |-> 1]

\* addTransaction for the transactions i..j of txs, in order
RECURSIVE AddAll(_, _, _, _, _)
AddAll(s, txs, i, j, t) ==
    IF i > j THEN s ELSE AddAll(addTransactionOp(s, txs[i], t).st, txs, i + 1, j, t)

\* The state after createGenesisBlock, txs[1..k1] added and mined, txs[k1+1..k2]
\* added and mined, and the remaining transactions added.
Ledger(txs, k1, k2) ==
    LET s0 == createGenesisBlockOp(NewState, 1).st
        s1 == AddAll(s0, txs, 1, k1, 1)
        s1m == IF k1 >= 1 THEN minePendingTransactionsOp(s1, 1).st ELSE s1
        s2 == AddAll(s1m, txs, k1 + 1, k2, MaxTime)
        s2m == IF k2 > k1 THEN minePendingTransactionsOp(s2, MaxTime).st ELSE s2
    IN AddAll(s2m, txs, k2 + 1, Len(txs), MaxTime)

InitSearch ==
    /\ networkNodes = {}
    /\ pendingValidations = <<>>
    /\ votes = <<>>
    /\ now = MaxTime
    /\ ret = Observed(NoRet)
    /\ merkle = NewMerkleTree(<<>>)
    /\ \E n \in 0..MaxSearchTx : \E txs \in [1..n -> SearchTxs] :
       \E k1 \in 0..n : \E k2 \in k1..n :
          LET s == Ledger(txs, k1, k2) IN
          /\ chain = s.chain
          /\ pendingTransactions = s.pending
          /\ nextId = s.nextId

SearchTransactions ==
    /\ \E criteria \in CriteriaArgs :
          LET r == searchTransactionsOp(St, criteria) IN
          /\ chain' = r.st.chain
          /\ pendingTransactions' = r.st.pending
          /\ nextId' = r.st.nextId
          /\ ret' = [op |-> r.ret.op, ok |-> r.ret.ok,
                     entries |-> Len(criteria),
                     nested |-> \E i \in 1..Len(criteria) : Len(criteria[i].key) > 1,
                     found |-> Len(r.results)]
    /\ UNCHANGED <<networkNodes, pendingValidations, votes, now, merkle>>

NextSearch == SearchTransactions

SpecSearch == InitSearch /\ [][NextSearch]_vars

\* ------------------------------------------------ calculateMerkleRoot actions
\* Transactions of three senders
RootTxs ==
    {[id |-> NoId, from |-> f, to |-> "b", data |-> "d", timestamp |-> 0] :
        f \in {"a", "c", "e"}}

\* A ledger with a genesis block and a pool of up to MaxRootTx transactions
InitRoot ==
    /\ networkNodes = {}
    /\ pendingValidations = <<>>
    /\ votes = <<>>
    /\ now = 1
    /\ ret = Observed(NoRet)
    /\ merkle = NewMerkleTree(<<>>)
    /\ \E n \in 0..MaxRootTx : \E txs \in [1..n -> RootTxs] :
          LET s == AddAll(createGenesisBlockOp(NewState, 1).st, txs, 1, n, 1) IN
          /\ chain = s.chain
          /\ pendingTransactions = s.pending
          /\ nextId = s.nextId

\* calculateMerkleRoot(this.pendingTransactions), as minePendingTransactions and
\* proposeBlock call it
CalculateMerkleRoot ==
    /\ ret' = [op |-> "calculateMerkleRoot",
               root |-> calculateMerkleRoot(pendingTransactions)]
    /\ UNCHANGED <<chain, pendingTransactions, networkNodes, pendingValidations,
                   votes, now, nextId, merkle>>

NextRoot == CalculateMerkleRoot

SpecRoot == InitRoot /\ [][NextRoot]_vars

\* ------------------------------------------------------------------ syncChain
\* A hash string that is not a digest, such as 'genesis' or 'wrong'.
ShortHash == [pre |-> 1, body |-> <<"genesis">>]

\* hash.length: 64 for a hex digest, 1 for '0', 7 for 'genesis', 0 for ''
hashLength(h) ==
    IF h = Absent THEN 0
    ELSE IF h = ZeroString THEN 1
    ELSE IF h = ShortHash THEN 7
    ELSE 64

\* A candidate handed to syncChain: an array of blocks, or a value that is not
\* an array.
ArrayOf(blocks) == [isArray |-> TRUE, blocks |-> blocks]
NotArray == [isArray |-> FALSE, blocks |-> <<>>]

\* validateChain(chain) with the test of the first block left out
validateChainNoGenesis(c) ==
    /\ c.isArray
    /\ Len(c.blocks) # 0
    /\ \A i \in 2..Len(c.blocks) :
          /\ c.blocks[i].previousHash = c.blocks[i - 1].hash
          /\ c.blocks[i].hash # Absent
          /\ hashLength(c.blocks[i].hash) = 64

\* validateChain(chain): an array that is not empty, a first block with index 0
\* and a hash, every later block linked to the one before it and carrying a
\* hash of 64 characters
validateChain(c) ==
    /\ c.isArray
    /\ Len(c.blocks) # 0
    /\ c.blocks[1].index = 0
    /\ c.blocks[1].hash # Absent
    /\ \A i \in 2..Len(c.blocks) :
          /\ c.blocks[i].previousHash = c.blocks[i - 1].hash
          /\ c.blocks[i].hash # Absent
          /\ hashLength(c.blocks[i].hash) = 64

\* The loop of syncChain over networkChains[i..]: acc holds longestChain,
\* longestLength and foundInvalidChain.
RECURSIVE SyncScan(_, _, _)
SyncScan(networkChains, i, acc) ==
    IF i > Len(networkChains) THEN acc
    ELSE LET c == networkChains[i] IN
         IF ~c.isArray THEN SyncScan(networkChains, i + 1, acc)
         ELSE IF ~validateChain(c)
         THEN SyncScan(networkChains, i + 1,
                  [acc EXCEPT !.foundInvalidChain = TRUE,
                              !.longestLength =
                                  IF Len(c.blocks) > @ THEN Len(c.blocks) ELSE @])
         ELSE IF Len(c.blocks) > acc.longestLength
         THEN SyncScan(networkChains, i + 1,
                  [acc EXCEPT !.longestChain = c.blocks,
                              !.longestLength = Len(c.blocks)])
         ELSE SyncScan(networkChains, i + 1, acc)

\* networkChains = null
NoChains == [given |-> FALSE, list |-> <<>>]
ChainsOf(list) == [given |-> TRUE, list |-> list]

\* The object syncChain returns; a field the object lacks is FALSE or 0.
NoSync == [success |-> FALSE, synced |-> FALSE, localChainLength |-> 0,
           newChainLength |-> 0, chainReplaced |-> FALSE, chainValid |-> FALSE,
           message |-> ""]

\* syncChain with the longer valid chain put in place of the local one
AfterSyncReplaced(s, acc) == [s EXCEPT !.chain = acc.longestChain]

\* syncChain, lines 385-388: a longer valid chain is reported, not installed.
AfterSync(s, acc) == s

\* syncChain(networkChains): the local state is left as it is
syncChainOp(s, networkChains) ==
    LET localChainLength == Len(s.chain)
        r == [NoRet EXCEPT !.op = "syncChain"]
        base == [NoSync EXCEPT !.localChainLength = localChainLength]
    IN
    IF ~networkChains.given \/ Len(networkChains.list) = 0
    THEN [st |-> s, ret |-> r,
          result |-> [base EXCEPT !.success = TRUE, !.synced = TRUE,
                                  !.chainValid = isChainValid(s.chain),
                                  !.message = "simulated"]]
    ELSE LET acc == SyncScan(networkChains.list, 1,
                        [longestChain |-> s.chain,
                         longestLength |-> localChainLength,
                         foundInvalidChain |-> FALSE])
         IN
         IF acc.foundInvalidChain /\ acc.longestLength > localChainLength
         THEN [st |-> s, ret |-> r,
               result |-> [base EXCEPT !.message = "Invalid chain provided"]]
         ELSE IF acc.longestLength > localChainLength /\ ~acc.foundInvalidChain
         THEN [st |-> AfterSync(s, acc), ret |-> r,
               result |-> [base EXCEPT !.success = TRUE, !.synced = TRUE,
                                       !.newChainLength = acc.longestLength,
                                       !.chainReplaced = TRUE,
                                       !.chainValid = TRUE,
                                       !.message = "Chain synchronized"]]
         ELSE [st |-> s, ret |-> r,
               result |-> [base EXCEPT !.success = TRUE, !.synced = TRUE,
                                       !.chainValid = ~acc.foundInvalidChain,
                                       !.message = "Local chain is up to date"]]

\* ---------------------------------------------------------- syncChain actions
SyncTx == [id |-> NoId, from |-> "a", to |-> "b", data |-> "d", timestamp |-> 0]

\* Ledgers of one, two and three blocks, and a second ledger of two blocks
\* mined at another time.
SyncLedgers ==
    {Ledger(<<>>, 0, 0), Ledger(<<SyncTx>>, 1, 1), Ledger(<<SyncTx>>, 0, 1),
     Ledger(<<SyncTx, SyncTx>>, 1, 2)}

\* Chains that validate: the chains of those ledgers, and a single first block
\* whose hash is the string 'genesis'.
ValidChains ==
    {l.chain : l \in SyncLedgers} \cup
    {<<[Ledger(<<>>, 0, 0).chain[1] EXCEPT !.hash = ShortHash]>>}

\* Chains that do not validate, made from ch: a first block with another index
\* or without a hash, a later block with a broken link, a short hash or no hash.
Broken(ch) ==
    {[ch EXCEPT ![1].index = 1], [ch EXCEPT ![1].hash = Absent]} \cup
    UNION {{[ch EXCEPT ![i].previousHash = ZeroString],
            [ch EXCEPT ![i].hash = ShortHash],
            [ch EXCEPT ![i].hash = Absent]} : i \in 2..Len(ch)}

Candidates ==
    {ArrayOf(ch) : ch \in ValidChains} \cup
    {ArrayOf(b) : b \in UNION {Broken(ch) : ch \in ValidChains}} \cup
    {ArrayOf(<<>>), NotArray}

\* The arguments of syncChain: null, or an array of candidates
SyncArgs ==
    {NoChains} \cup
    {ChainsOf(l) : l \in UNION {[1..n -> Candidates] : n \in 0..MaxCandidates}}

InitSync ==
    /\ networkNodes = {}
    /\ pendingValidations = <<>>
    /\ votes = <<>>
    /\ now = MaxTime
    /\ ret = Observed(NoRet)
    /\ merkle = NewMerkleTree(<<>>)
    /\ \E s \in SyncLedgers \cup {NewState} :
          /\ chain = s.chain
          /\ pendingTransactions = s.pending
          /\ nextId = s.nextId

\* syncChain(networkChains); ret keeps the returned object and, of each
\* candidate, its length and whether it validates.
SyncChain ==
    /\ \E networkChains \in SyncArgs :
          LET r == syncChainOp(St, networkChains) IN
          /\ chain' = r.st.chain
          /\ pendingTransactions' = r.st.pending
          /\ nextId' = r.st.nextId
          /\ ret' = [op |-> r.ret.op, ok |-> r.ret.ok, result |-> r.result,
                     lengths |-> [i \in 1..Len(networkChains.list) |->
                                     Len(networkChains.list[i].blocks)],
                     valid |-> [i \in 1..Len(networkChains.list) |->
                                   validateChain(networkChains.list[i])]]
    /\ UNCHANGED <<networkNodes, pendingValidations, votes, now, merkle>>

NextSync == SyncChain

SpecSync == InitSync /\ [][NextSync]_vars

\* Candidates a peer of this ledger can send: the local chain, the local chain
\* with the pool mined on top, the chains of other ledgers, a chain with a
\* broken link and an empty chain.
LocalCandidates ==
    {ArrayOf(chain), ArrayOf(<<>>)} \cup
    {ArrayOf(ch) : ch \in ValidChains} \cup
    {ArrayOf([ch EXCEPT ![Len(ch)].previousHash = ZeroString]) :
        ch \in {l.chain : l \in SyncLedgers}} \cup
    (IF Len(chain) > 0 /\ Len(pendingTransactions) > 0
     THEN {ArrayOf(Append(chain, MinedBlock(St, now)))} ELSE {})

LocalSyncArgs ==
    {NoChains} \cup
    {ChainsOf(l) : l \in UNION {[1..n -> LocalCandidates] : n \in 0..MaxCandidates}}

SyncLocalChains == \E networkChains \in LocalSyncArgs : Apply(syncChainOp(St, networkChains))

\* The ledger, the registry and the coordinator with chain synchronisation,
\* all within one clock reading.
NextRead ==
    \/ CreateGenesisBlock
    \/ AddTransaction
    \/ MinePendingTransactions
    \/ AddNode
    \/ RemoveNode
    \/ ProposeBlock
    \/ VoteOnBlock
    \/ CheckConsensus
    \/ HandleNodeFailure
    \/ SyncLocalChains

SpecRead == Init /\ [][NextRead]_vars

\* ------------------------------------------------------------------ claims
ProposalHashes == {pendingValidations[i].key : i \in 1..Len(pendingValidations)}

\* The yes votes held in state s under proposal hash h
Tally(s, h) ==
    LET vm == MapGet(s.votes, h) IN Cardinality({n \in DOMAIN vm : vm[n].isValid})

\* C1: every block after the genesis block has index = its position, previousHash =
\* the hash of the block before it, a stored hash equal to the hash recomputed
\* from its fields and a merkleRoot equal to the root recomputed over its
\* transactions; isChainValid() is true in every reachable state.
C1_ChainIntegrity ==
    /\ \A i \in 2..Len(chain) :
          /\ chain[i].index = i - 1
          /\ chain[i].previousHash = chain[i - 1].hash
          /\ chain[i].hash = calculateBlockHash(chain[i])
          /\ chain[i].merkleRoot = calculateMerkleRoot(chain[i].transactions)
    /\ isChainValid(chain)

\* Two mined blocks, the second mined by voteOnBlock on quorum.
C1_Witness == Len(chain) >= 3 /\ ret.op = "voteOnBlock" /\ ret.hasBlock

\* The chain with field f of transaction j of block i replaced by v and the
\* block's stored hash recomputed (Blockchain.test.js, lines 79-82).
TamperedChain(ch, i, j, f, v) ==
    LET tx == IF f = "from" THEN [ch[i].transactions[j] EXCEPT !.from = v]
              ELSE IF f = "to" THEN [ch[i].transactions[j] EXCEPT !.to = v]
              ELSE [ch[i].transactions[j] EXCEPT !.data = v]
        b == [ch[i] EXCEPT !.transactions[j] = tx]
    IN [ch EXCEPT ![i] = [b EXCEPT !.hash = calculateBlockHash(b)]]

\* C2: replacing the content of any transaction of any mined block and setting
\* that block's stored hash to the recomputed hash makes isChainValid() false.
C2_TamperDetected ==
    \A i \in 2..Len(chain) : \A j \in 1..Len(chain[i].transactions) :
        \A f \in {"from", "to", "data"} : \A v \in {"tampered", ""} :
            ~isChainValid(TamperedChain(chain, i, j, f, v))

\* Two mined blocks; the last one, which no later block links to, is tampered.
C2_Witness ==
    /\ Len(chain) >= 3
    /\ Len(chain[Len(chain)].transactions) >= 1
    /\ ~isChainValid(TamperedChain(chain, Len(chain), 1, "data", "tampered"))

\* C3: with a non-empty pool and a genesis block, minePendingTransactions appends
\* exactly one block, with index = the old chain length, previousHash = the old
\* tip's hash and the pool's transactions in order, and empties the pool.
C3_MineAppendsOneBlock ==
    (Len(pendingTransactions) > 0 /\ Len(chain) > 0) =>
        LET r == minePendingTransactionsOp(St, now)
            b == r.st.chain[Len(r.st.chain)]
        IN /\ r.ret.ok
           /\ Len(r.st.chain) = Len(chain) + 1
           /\ SubSeq(r.st.chain, 1, Len(chain)) = chain
           /\ b.index = Len(chain)
           /\ b.previousHash = chain[Len(chain)].hash
           /\ b.transactions = pendingTransactions
           /\ r.st.pending = <<>>

\* A direct call has just mined a block of two transactions.
C3_Witness ==
    /\ ret.op = "minePendingTransactions" /\ ret.ok
    /\ Len(chain) >= 2 /\ Len(chain[Len(chain)].transactions) = 2
    /\ pendingTransactions = <<>>

\* C4: minePendingTransactions on an empty pool fails with an error and leaves
\* the chain and the pool (and everything else) unchanged.
C4_MineEmptyPoolFails ==
    Len(pendingTransactions) = 0 =>
        LET r == minePendingTransactionsOp(St, now)
        IN ~r.ret.ok /\ r.st = St

\* A direct call has just failed on the empty pool of a chain with a mined block.
C4_Witness ==
    /\ ret.op = "minePendingTransactions" /\ ~ret.ok /\ ret.error = "EmptyPool"
    /\ Len(chain) >= 2 /\ pendingTransactions = <<>>

\* C5: proposeBlock, voteOnBlock and checkConsensus report consensusReached
\* exactly when 100 * yesVotes >= 67 * totalNodes, with totalNodes the number of
\* peers + 1 and yesVotes the yes votes held for the proposal; 2 of 3 is no
\* quorum, 1 of 1 and 3 of 3 are.
C5_QuorumArithmetic ==
    /\ ~ConsensusReached(2, 3) /\ ConsensusReached(1, 1) /\ ConsensusReached(3, 3)
    /\ \A txs \in TxLists :
          LET r == proposeBlockOp(St, txs, now) IN
          r.ret.ok =>
              /\ r.ret.consensusReached <=> (100 * r.ret.yesVotes >= 67 * r.ret.totalNodes)
              /\ r.ret.totalNodes = Cardinality(networkNodes) + 1
              /\ r.ret.yesVotes = Tally(r.st, r.ret.blockHash)
    /\ \A h \in ProposalHashes :
          /\ \A v \in BOOLEAN :
                LET r == voteOnBlockOp(St, h, v, now) IN
                r.ret.ok =>
                    /\ r.ret.consensusReached <=> (100 * r.ret.yesVotes >= 67 * r.ret.totalNodes)
                    /\ r.ret.totalNodes = Cardinality(networkNodes) + 1
                    /\ r.ret.yesVotes = Tally(r.st, h)
          /\ LET r == checkConsensusOp(St, h) IN
             /\ r.ret.error = ""
             /\ r.ret.consensusReached <=> (100 * r.ret.yesVotes >= 67 * r.ret.totalNodes)
             /\ r.ret.totalNodes = Cardinality(networkNodes) + 1
             /\ r.ret.yesVotes = Tally(St, h)

\* A proposal made while a peer is registered: 1 yes vote of 2 nodes, no quorum.
C5_Witness ==
    /\ ret.op = "proposeBlock" /\ ret.ok /\ ~ret.consensusReached
    /\ networkNodes # {}

\* C6: with no peers, every successful proposeBlock casts the proposer's yes vote,
\* reports consensusReached, leaves the chain exactly one block longer and the
\* pool empty.
C6_SingleNodeProposeMines ==
    networkNodes = {} =>
        \A txs \in TxLists :
            LET r == proposeBlockOp(St, txs, now) IN
            r.ret.ok =>
                /\ r.ret.consensusReached
                /\ Len(r.st.chain) = Len(chain) + 1
                /\ SubSeq(r.st.chain, 1, Len(chain)) = chain
                /\ r.st.pending = <<>>
                /\ nodeId \in DOMAIN MapGet(r.st.votes, r.ret.blockHash)
                /\ MapGet(r.st.votes, r.ret.blockHash)[nodeId].isValid

\* proposeBlock has just mined on a registry without peers.
C6_Witness ==
    /\ ret.op = "proposeBlock" /\ ret.ok /\ ret.consensusReached
    /\ networkNodes = {} /\ Len(chain) >= 2 /\ pendingTransactions = <<>>

\* C7: each proposal holds at most one vote per node id in its own votes list
\* (the vote map holds one by construction), and a vote by a node that already
\* has a vote in the proposal is rejected as a duplicate.
C7_OneVotePerNode ==
    \A i \in 1..Len(pendingValidations) :
        LET list == pendingValidations[i].val.votes IN
        /\ \A a, b \in 1..Len(list) : a # b => list[a].nodeId # list[b].nodeId
        /\ (\E a \in 1..Len(list) : list[a].nodeId = nodeId) =>
              \A v \in BOOLEAN :
                  LET r == voteOnBlockOp(St, pendingValidations[i].key, v, now)
                  IN ~r.ret.ok /\ r.ret.error = "DuplicateVote"

\* C8: voteOnBlock fails with NotFound for an unknown hash, DuplicateVote when the
\* local node has a vote on the proposal, InvalidVote for a yes vote on a proposal
\* validateBlockProposal rejects; a failed call changes nothing.
C8_VoteErrors ==
    \A h \in KnownHashes : \A v \in BOOLEAN :
        LET r == voteOnBlockOp(St, h, v, now) IN
        /\ ~MapHas(pendingValidations, h) => (~r.ret.ok /\ r.ret.error = "NotFound")
        /\ (MapHas(pendingValidations, h) /\ nodeId \in DOMAIN MapGet(votes, h)) =>
              (~r.ret.ok /\ r.ret.error = "DuplicateVote")
        /\ ( /\ MapHas(pendingValidations, h)
             /\ nodeId \notin DOMAIN MapGet(votes, h)
             /\ v
             /\ ~validateBlockProposal(chain, MapGet(pendingValidations, h).proposal) ) =>
              (~r.ret.ok /\ r.ret.error = "InvalidVote")
        /\ ~r.ret.ok => r.st = St

\* A yes vote on a rejected proposal has just failed.
C8_Witness == ret.op = "voteOnBlock" /\ ~ret.ok /\ ret.error = "InvalidVote"

\* C9: a recorded yes vote that brings its proposal to quorum mines in the same
\* call: with a non-empty pool the chain grows by one block and the pool is
\* emptied; with an empty pool the vote stays recorded and the call returns
\* normally.  A no vote never mines.
C9_VoteMinesOnQuorum ==
    \A h \in ProposalHashes : \A v \in BOOLEAN :
        ( /\ nodeId \notin DOMAIN MapGet(votes, h)
          /\ v => validateBlockProposal(chain, MapGet(pendingValidations, h).proposal) ) =>
            LET r == voteOnBlockOp(St, h, v, now)
                quorum == 100 * Tally(r.st, h) >= 67 * (Cardinality(networkNodes) + 1)
            IN /\ r.ret.ok
               /\ nodeId \in DOMAIN MapGet(r.st.votes, h)
               /\ MapGet(r.st.votes, h)[nodeId].isValid = v
               /\ (v /\ quorum /\ Len(pendingTransactions) > 0) =>
                     /\ Len(r.st.chain) = Len(chain) + 1
                     /\ SubSeq(r.st.chain, 1, Len(chain)) = chain
                     /\ r.st.pending = <<>>
               /\ (v /\ quorum /\ Len(pendingTransactions) = 0) =>
                     /\ r.st.chain = chain
                     /\ r.st.pending = pendingTransactions
               /\ ~v => (r.st.chain = chain /\ r.st.pending = pendingTransactions)

\* A yes vote has just reached quorum while the pool was empty: no block, no error.
C9_Witness ==
    /\ ret.op = "voteOnBlock" /\ ret.ok /\ ret.consensusReached /\ ~ret.hasBlock
    /\ pendingTransactions = <<>>

\* C10: after handleNodeFailure(n), n is no peer and no open proposal holds a vote
\* by n, neither in the vote map nor in the proposal's own votes list.
C10_FailedNodeVotesRemoved ==
    \A n \in NodeIds :
        LET r == handleNodeFailureOp(St, n, now) IN
        /\ n \notin r.st.nodes
        /\ \A i \in 1..Len(r.st.votes) : n \notin DOMAIN r.st.votes[i].val
        /\ \A i \in 1..Len(r.st.pv) :
              \A a \in 1..Len(r.st.pv[i].val.votes) : r.st.pv[i].val.votes[a].nodeId # n

\* The position in the vote map of the first proposal that clears the threshold
\* once n's vote is gone and n is no peer (0 when there is none)
FirstCleared(n) ==
    LET count == Cardinality(networkNodes \ {n}) + 1
        q == {i \in 1..Len(votes) :
                /\ 100 * YesVotes(VotesDelete(votes[i].val, n)) >= 67 * count
                /\ MapHas(pendingValidations, votes[i].key)
                /\ validateBlockProposal(chain, MapGet(pendingValidations, votes[i].key).proposal)}
    IN IF q = {} THEN 0 ELSE CHOOSE i \in q : \A j \in q : i <= j

\* C11: handleNodeFailure(n) mines for the first open proposal that clears the
\* threshold at the node count after removal and passes validateBlockProposal;
\* when the mine succeeds (non-empty pool) the chain grows by one block and that
\* proposal and its votes are gone; every other proposal, and every proposal when
\* nothing clears or the mine fails (empty pool), stays registered with its votes
\* other than n's.
C11_FailureRecheck ==
    \A n \in NodeIds :
        LET r == handleNodeFailureOp(St, n, now)
            k == FirstCleared(n)
            mines == k # 0 /\ Len(pendingTransactions) > 0
            kept == {i \in 1..Len(votes) : ~(mines /\ i = k)}
        IN /\ r.ret.ok
           /\ mines => /\ Len(r.st.chain) = Len(chain) + 1
                       /\ r.st.pending = <<>>
                       /\ ~MapHas(r.st.pv, votes[k].key)
                       /\ ~MapHas(r.st.votes, votes[k].key)
           /\ ~mines => r.st.chain = chain /\ r.st.pending = pendingTransactions
           /\ \A i \in kept :
                 /\ MapHas(r.st.pv, votes[i].key)
                 /\ MapHas(r.st.votes, votes[i].key)
                 /\ MapGet(r.st.votes, votes[i].key) = VotesDelete(votes[i].val, n)
                 /\ MapGet(r.st.pv, votes[i].key) = MapGet(pendingValidations, votes[i].key)
           /\ Len(r.st.pv) = Cardinality(kept) /\ Len(r.st.votes) = Cardinality(kept)

\* handleNodeFailure has just mined for a proposal and removed it, while another
\* proposal stays registered.
C11_Witness ==
    /\ ret.op = "handleNodeFailure" /\ ret.hasBlock
    /\ Len(pendingValidations) = 1 /\ Len(chain) >= 2

\* C12: for every item of the list a tree was built over, getProof(item) does not
\* fail and verifyProof(item, getProof(item), root) is true.
C12_RoundTrip ==
    \A i \in 1..Len(merkle.data) :
        LET item == merkle.data[i]
            g == getProof(merkle, item)
        IN g.ok /\ verifyProof(item, g.proof, merkle.root) = "true"

\* C13: for the proof p obtained for an item of a tree with root r, verifyProof(x,
\* p, r) is false for every data x whose leaf hash differs from the item's, and
\* verifyProof(item, p, r2) is false for every supplied root r2 other than r.
C13_ProofRejectsOthers ==
    merkle.proof.present =>
        /\ \A x \in DataArgs \ {Null} :
              leafHashOf(x) # merkle.proof.leaf =>
                  verifyProof(x, merkle.proof, merkle.root) = "false"
        /\ \A x \in DataArgs \ {Null} : \A r2 \in RootArgs \ {Absent, merkle.root} :
              leafHashOf(x) = merkle.proof.leaf =>
                  verifyProof(x, merkle.proof, r2) = "false"

\* C14: each level above the leaves combines the adjacent pairs of the level below
\* and hashes an unpaired trailing node with a copy of itself; every leaf's proof
\* path has one entry per level below the root (0 for 1 item, 2 for 3 and for 4
\* items), and the entry for an unpaired trailing node carries that node's own
\* hash with position right.
C14_TreeShape ==
    LET levels == merkle.levels
        n == Len(merkle.data)
    IN /\ n >= 1 => (levels[1] = merkle.leaves /\ Len(levels[Len(levels)]) = 1)
       /\ \A k \in 1..(Len(levels) - 1) :
             /\ Len(levels[k + 1]) = (Len(levels[k]) + 1) \div 2
             /\ \A j \in 1..Len(levels[k + 1]) :
                   levels[k + 1][j] =
                       Sha256(<<"mcat", levels[k][2 * j - 1],
                                IF 2 * j <= Len(levels[k]) THEN levels[k][2 * j]
                                ELSE levels[k][2 * j - 1]>>)
       /\ \A i \in 1..n :
             LET g == getProof(merkle, HexString(merkle.leaves[i]))
                 idx == findIndex(merkle.leaves, merkle.leaves[i])
             IN /\ g.ok
                /\ Len(g.proof.path) = Len(levels) - 1
                /\ n = 1 => Len(g.proof.path) = 0
                /\ n \in {3, 4} => Len(g.proof.path) = 2
                /\ \A k \in 1..(Len(levels) - 1) :
                      LET at == idx \div (2 ^ (k - 1)) IN
                      (at + 1 = Len(levels[k]) /\ Len(levels[k]) % 2 = 1) =>
                          /\ g.proof.path[k].hash = levels[k][at + 1]
                          /\ g.proof.path[k].position = "right"

\* getProof has just returned the 2-entry path of the unpaired third leaf of a tree
\* over 3 items: its first entry is the leaf's own hash, on the right.
C14_Witness ==
    /\ merkle.out.op = "getProof" /\ merkle.out.result = "ok"
    /\ Len(merkle.data) = 3
    /\ merkle.proof.leaf = merkle.leaves[3]
    /\ merkle.leaves[3] # merkle.leaves[1] /\ merkle.leaves[3] # merkle.leaves[2]
    /\ Len(merkle.proof.path) = 2
    /\ merkle.proof.path[1].hash = merkle.leaves[3]
    /\ merkle.proof.path[1].position = "right"

\* C15: verifyProof returns false, and raises no error, for every malformed proof:
\* a missing proof, a proof without path, root or leaf (with or without data), a
\* path that is no list, a path entry without hash.
C15_MalformedProofFalse ==
    \A x \in DataArgs : \A p \in Malformed(merkle.proof) : \A r \in RootArgs :
        verifyProof(x, p, r) = "false"

\* verifyProof for entry e of a batch, with entry.root or else entry.proof.root
EntryVerifies(e) ==
    verifyProof(e.data, e.proof, IF e.root # Absent THEN e.root ELSE e.proof.root) = "true"

\* C16 as stated: for every list of entries, of any length, verifyBatch(entries) is
\* the logical AND over the entries of verifyProof(entry.data, entry.proof,
\* entry.root or else entry.proof.root).
C16_BatchIsAnd ==
    \A proofs \in Batches :
        (verifyBatch(proofs) = "true") <=> (\A i \in 1..Len(proofs) : EntryVerifies(proofs[i]))

\* C16 amended: verifyBatch(entries) is false for the empty list; for a non-empty
\* list it is true exactly when every entry has (truthy) data and a proof and
\* verifyProof(entry.data, entry.proof, entry.root or else entry.proof.root) is true.
C16_BatchIsAndNonEmpty ==
    \A proofs \in Batches :
        /\ Len(proofs) = 0 => verifyBatch(proofs) = "false"
        /\ (verifyBatch(proofs) = "true") <=>
              /\ Len(proofs) > 0
              /\ \A i \in 1..Len(proofs) :
                    /\ Truthy(proofs[i].data)
                    /\ proofs[i].proof.present
                    /\ EntryVerifies(proofs[i])

\* verifyBatch has just accepted a batch for a proof of a tree over several items.
C16_Witness ==
    /\ merkle.out.op = "verifyBatch" /\ merkle.out.result = "true"
    /\ merkle.proof.present /\ Len(merkle.data) >= 3

\* Ids of the transactions stored in the pool and in the chain
StoredIds ==
    {pendingTransactions[i].id : i \in 1..Len(pendingTransactions)} \cup
    UNION {{chain[b].transactions[i].id : i \in 1..Len(chain[b].transactions)} :
              b \in 1..Len(chain)}

\* C17: createGenesisBlock on an empty chain appends one block with index 0,
\* previousHash "0" and no transactions; on a non-empty chain it returns the first
\* block and changes nothing; in every reachable state exactly the block at
\* position 0 has index 0.
C17_GenesisOnce ==
    LET r == createGenesisBlockOp(St, now) IN
    /\ Len(chain) = 0 =>
          /\ Len(r.st.chain) = 1
          /\ r.st.chain[1].index = 0
          /\ r.st.chain[1].previousHash = ZeroString
          /\ r.st.chain[1].transactions = <<>>
          /\ r.st = [St EXCEPT !.chain = r.st.chain]
    /\ Len(chain) > 0 => (r.st = St /\ r.ret.ok /\ r.ret.blockHash = chain[1].hash)
    /\ \A i \in 1..Len(chain) : chain[i].index = 0 <=> i = 1

\* createGenesisBlock has just been called on a chain that holds two mined blocks.
C17_Witness == ret.op = "createGenesisBlock" /\ Len(chain) >= 3

\* C18: addTransaction with an empty from, to or data fails and changes nothing;
\* otherwise it appends exactly one transaction with a new id and the current
\* timestamp at the end of the pool, returns it, and leaves the chain and the
\* earlier pool entries unchanged.
C18_AddTransaction ==
    \A tx \in RawTxs \cup KnownTxs :
        LET r == addTransactionOp(St, tx, now)
            n == Len(pendingTransactions)
        IN IF tx.from = "" \/ tx.to = "" \/ tx.data = ""
           THEN ~r.ret.ok /\ r.st = St
           ELSE /\ r.ret.ok
                /\ Len(r.st.pending) = n + 1
                /\ SubSeq(r.st.pending, 1, n) = pendingTransactions
                /\ r.st.pending[n + 1].from = tx.from
                /\ r.st.pending[n + 1].to = tx.to
                /\ r.st.pending[n + 1].data = tx.data
                /\ r.st.pending[n + 1].timestamp = now
                /\ r.st.pending[n + 1].id \notin StoredIds \cup {NoId}
                /\ r.ret.txId = r.st.pending[n + 1].id
                /\ r.st.chain = chain
                /\ r.st = [St EXCEPT !.pending = r.st.pending, !.nextId = r.st.nextId]

\* A second transaction has just been appended behind an earlier pool entry.
C18_Witness ==
    /\ ret.op = "addTransaction" /\ ret.ok
    /\ Len(pendingTransactions) = 2 /\ Len(chain) >= 1
    /\ pendingTransactions[1].id # pendingTransactions[2].id

\* What a criteria key stands for in a stored transaction
FieldValue(tx, key) ==
    IF key = <<"from">> THEN StringOf(tx.from)
    ELSE IF key = <<"to">> THEN StringOf(tx.to)
    ELSE IF key = <<"id">> THEN NumberOf(tx.id)
    ELSE IF key = <<"data">> /\ tx.data \notin DataObjects THEN StringOf(tx.data)
    ELSE IF key = <<"data", "action">> /\ tx.data \in DataObjects
         THEN StringOf(ActionOf(tx.data))
    ELSE Undefined

\* The positions <<block, transaction>> of the chain whose transaction meets every
\* criterion
Matching(criteria) ==
    {p \in (1..Len(chain)) \X (1..MaxSearchTx) :
        /\ p[2] <= Len(chain[p[1]].transactions)
        /\ \A i \in 1..Len(criteria) :
              FieldValue(chain[p[1]].transactions[p[2]], criteria[i].key) = criteria[i].value}

\* C19: searchTransactions(criteria) returns, in chain order, exactly the
\* transactions of the chain's blocks for which every criterion key resolves to
\* the given value, each with its block's index, hash and timestamp; it returns
\* no transaction of the pending pool and changes no state.
C19_SearchExact ==
    \A criteria \in CriteriaArgs :
        LET r == searchTransactionsOp(St, criteria)
            M == Matching(criteria)
        IN /\ r.st = St
           /\ Len(r.results) = Cardinality(M)
           /\ \A k \in 1..Len(r.results) :
                 /\ \E p \in M :
                       /\ Cardinality({q \in M : q[1] < p[1] \/ (q[1] = p[1] /\ q[2] < p[2])}) = k - 1
                       /\ r.results[k].tx = chain[p[1]].transactions[p[2]]
                       /\ r.results[k].blockIndex = chain[p[1]].index
                       /\ r.results[k].blockHash = chain[p[1]].hash
                       /\ r.results[k].blockTimestamp = chain[p[1]].timestamp
                 /\ \A j \in 1..Len(pendingTransactions) :
                       r.results[k].tx.id # pendingTransactions[j].id

\* A search on two criteria, one a dotted path, has just returned one of the two
\* mined transactions, while a third transaction waits in the pool.
C19_Witness ==
    /\ ret.op = "searchTransactions"
    /\ ret.entries = 2 /\ ret.nested
    /\ ret.found = 1
    /\ Len(chain) = 3 /\ Len(pendingTransactions) = 1

\* The candidates of networkChains that pass validateChain
ValidCandidates(networkChains) ==
    {i \in 1..Len(networkChains.list) : validateChain(networkChains.list[i])}

\* C20: given candidate chains, whenever some candidate that passes
\* validateChain is longer than the local chain, syncChain reports
\* chainReplaced = true, chainValid = true and newChainLength equal to the
\* greatest length among the valid candidates, whether or not other candidates
\* of the call are invalid and in whatever order the candidates come.
C20_SyncSelectsLongestValid ==
    \A networkChains \in SyncArgs :
        LET valid == ValidCandidates(networkChains)
            result == syncChainOp(St, networkChains).result
        IN
        (\E i \in valid : Len(networkChains.list[i].blocks) > Len(chain)) =>
            /\ result.chainReplaced
            /\ result.chainValid
            /\ \E i \in valid :
                  /\ result.newChainLength = Len(networkChains.list[i].blocks)
                  /\ \A j \in valid :
                        Len(networkChains.list[j].blocks) <= result.newChainLength

\* A chain of blocks with one of the listed defects: a first block with an index
\* other than 0 or without a hash, a later block whose previousHash is not the
\* hash of the block before it, or a later block without a hash of 64 characters.
Defective(blocks) ==
    \/ Len(blocks) >= 1 /\ (blocks[1].index # 0 \/ blocks[1].hash = Absent)
    \/ \E i \in 2..Len(blocks) :
          \/ blocks[i].previousHash # blocks[i - 1].hash
          \/ blocks[i].hash = Absent
          \/ hashLength(blocks[i].hash) # 64

\* The candidates of networkChains longer than the local chain
LongerCandidates(networkChains) ==
    {i \in 1..Len(networkChains.list) :
        /\ networkChains.list[i].isArray
        /\ Len(networkChains.list[i].blocks) > Len(chain)}

\* C21: when some candidates are longer than the local chain and every one of
\* them is defective (first block with index other than 0 or without a hash,
\* broken previousHash link, later block without a 64-character hash), syncChain
\* reports chainValid = false and synced = false and reports no replacement.
C21_OnlyInvalidLonger ==
    \A networkChains \in SyncArgs :
        LET longer == LongerCandidates(networkChains)
            result == syncChainOp(St, networkChains).result
        IN
        (/\ longer # {}
         /\ \A i \in longer : Defective(networkChains.list[i].blocks)) =>
            /\ ~result.chainValid
            /\ ~result.synced
            /\ ~result.chainReplaced
            /\ result.newChainLength = 0

\* A call with a valid candidate no longer than the local chain and a longer
\* candidate that does not validate has returned.
C21_Witness ==
    /\ ret.op = "syncChain"
    /\ Len(ret.valid) = 2
    /\ ret.valid[1] /\ ret.lengths[1] <= ret.result.localChainLength
    /\ ~ret.valid[2] /\ ret.lengths[2] > ret.result.localChainLength
    /\ ~ret.result.chainValid /\ ~ret.result.synced

\* C22: syncChain, with no candidates or with any candidates, and checkConsensus
\* leave the chain, the pending pool, the proposals, the votes and the registry
\* as they are; checkConsensus for a hash with no proposal returns an object
\* with consensusReached = false and an error, and does not throw.
C22_ReadOnly ==
    /\ \A networkChains \in LocalSyncArgs :
          syncChainOp(St, networkChains).st = St
    /\ \A h \in KnownHashes :
          LET r == checkConsensusOp(St, h) IN
          /\ r.st = St
          /\ ~MapHas(pendingValidations, h) =>
                r.ret.ok /\ ~r.ret.consensusReached /\ r.ret.error # ""

\* syncChain has returned on a ledger with a pool, a peer, a proposal and its
\* votes, among candidates that hold a valid chain longer than the local one.
C22_Witness ==
    /\ ret.op = "syncChain"
    /\ Len(pendingTransactions) > 0
    /\ networkNodes # {}
    /\ Len(pendingValidations) > 0
    /\ Len(votes) > 0
    /\ \E c \in LocalCandidates : validateChain(c) /\ Len(c.blocks) > Len(chain)

\* Block objects a caller can hold: the stored proposals, the blocks of the
\* chain, the first block of another ledger, and the block proposeBlock would
\* build from the pool now.
HeldBlocks ==
    {pendingValidations[i].val.proposal : i \in 1..Len(pendingValidations)} \cup
    {chain[i] : i \in 1..Len(chain)} \cup
    {createGenesisBlockOp(NewState, MaxTime).st.chain[1]} \cup
    (IF Len(chain) > 0 /\ Len(pendingTransactions) > 0
     THEN {[NewBlock(St, now) EXCEPT !.hash = calculateBlockHash(NewBlock(St, now))]}
     ELSE {})

\* A held block and its copies with one field overwritten or deleted (index -1
\* and timestamp 0 stand for a missing field), or with a transaction without
\* sender added, with and without the Merkle root recomputed.
Variants(b) ==
    LET badTx == [id |-> NoId, from |-> "", to |-> "b", data |-> "d", timestamp |-> 0]
        withBad == Append(b.transactions, badTx)
    IN
    {b,
     [b EXCEPT !.hash = Absent], [b EXCEPT !.hash = Sha256(<<"tampered">>)],
     [b EXCEPT !.merkleRoot = Absent], [b EXCEPT !.merkleRoot = Sha256(<<"tampered">>)],
     [b EXCEPT !.previousHash = Absent], [b EXCEPT !.previousHash = ZeroString],
     [b EXCEPT !.timestamp = 0], [b EXCEPT !.index = -1],
     [b EXCEPT !.transactions = withBad],
     [b EXCEPT !.transactions = withBad, !.merkleRoot = calculateMerkleRoot(withBad)]} \cup
    {[b EXCEPT !.index = k] : k \in 0..(Len(chain) + 1)}

ProposalArgs == UNION {Variants(b) : b \in HeldBlocks}

\* Every required field of a block object is there.
FieldsPresent(p) ==
    /\ p.index >= 0
    /\ p.timestamp # 0
    /\ p.previousHash # Absent
    /\ p.hash # Absent
    /\ p.merkleRoot # Absent

\* Every transaction has from, to and data, and merkleRoot is the root
\* recomputed over the transactions.
ContentsSound(p) ==
    /\ \A i \in 1..Len(p.transactions) :
          /\ p.transactions[i].from # ""
          /\ p.transactions[i].to # ""
          /\ p.transactions[i].data # ""
    /\ p.merkleRoot = calculateMerkleRoot(p.transactions)

\* C23 as stated: for a proposal whose index is below the chain length,
\* validateBlockProposal returns true only if the proposal's hash equals the
\* hash of the stored block at that index.
C23_MinedIndexNeedsHashMatch ==
    \A p \in ProposalArgs :
        (p.index >= 0 /\ p.index < Len(chain) /\ validateBlockProposal(chain, p)) =>
            p.hash = chain[p.index + 1].hash

\* C23 amended: for a proposal whose index is below the chain length,
\* validateBlockProposal returns true exactly when the required fields are
\* present, every transaction has from, to and data and merkleRoot equals the
\* recomputed root; whether its hash equals the stored block's hash and what
\* its previousHash is make no difference.
C23_MinedIndexStructureOnly ==
    \A p \in ProposalArgs :
        (p.index >= 0 /\ p.index < Len(chain)) =>
            (validateBlockProposal(chain, p) <=> (FieldsPresent(p) /\ ContentsSound(p)))

\* A proposal stays registered after the block of its index was mined with
\* another hash, and validateBlockProposal accepts it.
C23_Witness ==
    /\ ret.op = "proposeBlock" /\ ret.ok
    /\ \E i \in 1..Len(pendingValidations) :
          LET p == pendingValidations[i].val.proposal IN
          /\ p.index < Len(chain)
          /\ p.hash # chain[p.index + 1].hash
          /\ validateBlockProposal(chain, p)

\* The arguments of a validateBlockProposal call: a block object, the same
\* object without its transactions, or null.
ProposalCallArgs ==
    {[given |-> g, hasTransactions |-> h, block |-> b] :
        g \in {TRUE}, h \in BOOLEAN, b \in ProposalArgs} \cup
    {[given |-> FALSE, hasTransactions |-> FALSE,
      block |-> createGenesisBlockOp(NewState, MaxTime).st.chain[1]]}

\* C24: for a proposal whose index is at or beyond the chain length,
\* validateBlockProposal returns true exactly when all required fields are
\* present, every transaction has from, to and data, merkleRoot equals the
\* recomputed root and previousHash equals the hash of the current tip; in
\* every other case it returns false and does not raise.
C24_UnminedProposal ==
    \A a \in ProposalCallArgs :
        (a.given /\ a.block.index >= Len(chain)) =>
            LET p == a.block
                sound == /\ a.hasTransactions
                         /\ FieldsPresent(p)
                         /\ ContentsSound(p)
                         /\ Len(chain) > 0
                         /\ p.previousHash = chain[Len(chain)].hash
            IN validateBlockProposalCall(chain, a) = (IF sound THEN "true" ELSE "false")

\* A transaction object without from, to or data
Incomplete(tx) == tx.from = "" \/ tx.to = "" \/ tx.data = ""

\* C25: proposeBlock throws for an empty list and for a list that holds a
\* transaction without from, to or data; the pool (also the valid transactions
\* before the invalid one), the proposals, the votes and the rest of the state
\* are then as before the call.
C25_ProposeRejects ==
    \A txs \in TxLists :
        (Len(txs) = 0 \/ \E i \in 1..Len(txs) : Incomplete(txs[i])) =>
            LET r == proposeBlockOp(St, txs, now) IN
            /\ ~r.ret.ok
            /\ r.ret.error = (IF Len(txs) = 0 THEN "EmptyInput" ELSE "InvalidTransaction")
            /\ r.st = St

\* proposeBlock has thrown for an invalid transaction on a ledger with an empty
\* pool, where a valid transaction put before the invalid one would have been
\* merged.
C25_Witness ==
    /\ ret.op = "proposeBlock" /\ ~ret.ok /\ ret.error = "InvalidTransaction"
    /\ Len(chain) > 0
    /\ Len(pendingTransactions) = 0
    /\ \E txs \in TxLists :
          /\ Len(txs) = 2 /\ ~Incomplete(txs[1]) /\ Incomplete(txs[2])
          /\ MergeTransactions(St, txs, 1, now) # St

\* Lists a caller hands to proposeBlock: one or two transactions, new ones of
\* two senders and those of the pool and the chain, the last one a new one when
\* there are two.
ProposeLists ==
    LET new == {[id |-> NoId, from |-> f, to |-> "b", data |-> "d", timestamp |-> 0] :
                   f \in {"a", "c"}}
    IN {<<tx>> : tx \in new \cup KnownTxs} \cup
       {<<tx1, tx2>> : tx1 \in new \cup KnownTxs, tx2 \in new}

\* pool with every transaction of txs[i..] appended that matches none of the
\* pool, those appended before it included, by id or by from, to and data
RECURSIVE PoolWith(_, _, _, _)
PoolWith(pool, txs, i, id) ==
    IF i > Len(txs) THEN pool
    ELSE IF \E j \in 1..Len(pool) :
               \/ pool[j].id = txs[i].id
               \/ <<pool[j].from, pool[j].to, pool[j].data>> =
                      <<txs[i].from, txs[i].to, txs[i].data>>
         THEN PoolWith(pool, txs, i + 1, id)
         ELSE PoolWith(Append(pool, [txs[i] EXCEPT !.id = id, !.timestamp = now]),
                       txs, i + 1, id + 1)

\* C26: a successful proposeBlock adds to the pool each supplied transaction
\* that matches no pooled one by id or by from, to and data, then registers a
\* proposal whose transactions are the whole pool in pool order, with index =
\* chain length and previousHash = hash of the tip; the pool is afterwards that
\* merged pool, or empty if the call mined.  The same transaction proposed a
\* second time with no mining in between is not added again.
C26_ProposeMergesPool ==
    \A txs \in ProposeLists :
        \A r \in {proposeBlockOp(St, txs, now)} :
        \A merged \in {PoolWith(pendingTransactions, txs, 1, nextId)} :
        r.ret.ok =>
            /\ MapHas(r.st.pv, r.ret.blockHash)
            /\ LET p == MapGet(r.st.pv, r.ret.blockHash).proposal IN
               /\ p.transactions = merged
               /\ p.index = Len(chain)
               /\ p.previousHash = chain[Len(chain)].hash
               /\ p.hash = r.ret.blockHash
            /\ r.st.pending = (IF Len(r.st.chain) > Len(chain) THEN <<>> ELSE merged)
            /\ (Len(txs) = 1 /\ Len(r.st.chain) = Len(chain)) =>
                  \A r2 \in {proposeBlockOp(r.st, txs, now)} :
                      r2.ret.ok /\ Len(r2.st.chain) = Len(chain) => r2.st.pending = merged

\* proposeBlock has registered a proposal of the whole pool without mining, and
\* a list exists that would add a new transaction to this pool.
C26_Witness ==
    /\ ret.op = "proposeBlock" /\ ret.ok /\ ~ret.consensusReached
    /\ Len(pendingTransactions) >= 1
    /\ \E i \in 1..Len(pendingValidations) :
          /\ pendingValidations[i].val.proposal.transactions = pendingTransactions
          /\ pendingValidations[i].val.proposal.index = Len(chain)
    /\ \E txs \in ProposeLists :
          /\ Len(PoolWith(pendingTransactions, txs, 1, nextId)) = Len(pendingTransactions) + 1
          /\ Len(txs) = 2
          /\ proposeBlockOp(St, txs, now).ret.ok

\* C27: the local node id is never in the peer set and getNodeCount() is the
\* number of peers plus one, hence at least 1; addNode with the local id
\* changes nothing; removeNode and handleNodeFailure lower the count by exactly
\* one for a registered peer and leave it as it is for any other id.
C27_NodeCount ==
    /\ nodeId \notin networkNodes
    /\ getNodeCount(networkNodes) = Cardinality(networkNodes \cup {nodeId})
    /\ getNodeCount(networkNodes) >= 1
    /\ addNodeOp(St, nodeId).st = St
    /\ \A n \in NodeIds :
          LET lower == IF n \in networkNodes THEN 1 ELSE 0 IN
          /\ getNodeCount(removeNodeOp(St, n).st.nodes) = getNodeCount(networkNodes) - lower
          /\ removeNodeOp(St, n).st.nodes = networkNodes \ {n}
          /\ getNodeCount(handleNodeFailureOp(St, n, now).st.nodes) =
                getNodeCount(networkNodes) - lower
          /\ handleNodeFailureOp(St, n, now).st.nodes = networkNodes \ {n}

\* handleNodeFailure has removed the only peer while a proposal was waiting for
\* votes.
C27_Witness ==
    /\ ret.op = "handleNodeFailure"
    /\ networkNodes = {}
    /\ Len(pendingValidations) > 0
    /\ getNodeCount(networkNodes) = 1

\* a is a prefix of b
IsPrefix(a, b) == Len(a) <= Len(b) /\ SubSeq(b, 1, Len(a)) = a

\* C28: across every call of a ledger or coordinator operation the chain before
\* is a prefix of the chain after; a chain change made by proposeBlock,
\* voteOnBlock or handleNodeFailure is the effect of one minePendingTransactions
\* call: one block mined on the old tip over the pool (for proposeBlock the pool
\* with the supplied transactions merged), and the pool is empty afterwards.
C28_AppendOnly ==
    [][ /\ IsPrefix(chain, chain')
        /\ (chain' # chain /\ ret'.op \in {"proposeBlock", "voteOnBlock", "handleNodeFailure"}) =>
              LET b == chain'[Len(chain')] IN
              /\ chain' = minePendingTransactionsOp(
                              [St EXCEPT !.pending = b.transactions], now).st.chain
              /\ Len(chain') = Len(chain) + 1
              /\ pendingTransactions' = <<>>
              /\ IsPrefix(pendingTransactions, b.transactions)
              /\ ret'.op # "proposeBlock" => b.transactions = pendingTransactions
      ]_vars

\* handleNodeFailure has just mined a block.
C28_Witness ==
    /\ ret.op = "handleNodeFailure" /\ ret.hasBlock
    /\ Len(chain) >= 2
    /\ pendingTransactions = <<>>

\* C29: after a successful proposeBlock the votes recorded for the returned
\* blockHash, in the vote map and in the proposal's own list, are exactly one
\* vote, a yes vote of the local node, and the returned totalVotes and yesVotes
\* are both 1.
C29_ProposerVotesYes ==
    \A txs \in TxLists :
        \A r \in {proposeBlockOp(St, txs, now)} :
        r.ret.ok =>
            /\ MapHas(r.st.votes, r.ret.blockHash)
            /\ MapHas(r.st.pv, r.ret.blockHash)
            /\ LET votesMap == MapGet(r.st.votes, r.ret.blockHash)
                   list == MapGet(r.st.pv, r.ret.blockHash).votes
               IN
               /\ DOMAIN votesMap = {nodeId}
               /\ votesMap[nodeId].isValid
               /\ votesMap[nodeId].nodeId = nodeId
               /\ votesMap[nodeId].blockHash = r.ret.blockHash
               /\ Len(list) = 1
               /\ list[1] = votesMap[nodeId]
            /\ r.ret.totalVotes = 1
            /\ r.ret.yesVotes = 1

\* proposeBlock has returned without quorum, its proposal holding the
\* proposer's yes vote alone.
C29_Witness ==
    /\ ret.op = "proposeBlock" /\ ret.ok /\ ~ret.consensusReached
    /\ networkNodes # {}
    /\ \E i \in 1..Len(votes) :
          /\ DOMAIN votes[i].val = {nodeId}
          /\ votes[i].val[nodeId].isValid
          /\ MapGet(pendingValidations, votes[i].key).proposal.index = Len(chain)

\* H(a + b): the digest of two hex digests written one after the other
H2(a, b) == Sha256(<<"cat", a, b>>)

\* The level above hs: node i combines hs[2i-1] and hs[2i]; the last node of an
\* odd level is hs's last node itself.
LevelAbove(hs) ==
    [i \in 1..((Len(hs) + 1) \div 2) |->
        IF 2 * i <= Len(hs) THEN H2(hs[2 * i - 1], hs[2 * i]) ELSE hs[2 * i - 1]]

RECURSIVE TopOf(_)
TopOf(hs) == IF Len(hs) = 1 THEN hs[1] ELSE TopOf(LevelAbove(hs))

\* C30: calculateMerkleRoot returns the hash of the empty string for no
\* transactions, the hash of the transaction for one, and otherwise combines
\* adjacent hashes pairwise level by level, an unpaired trailing node going up
\* unchanged; for three transactions the root is H(H(h1+h2)+h3).
C30_LedgerMerkleRoot ==
    LET txs == pendingTransactions
        h == [i \in 1..Len(txs) |-> Sha256(<<"json", txs[i]>>)]
        root == calculateMerkleRoot(txs)
    IN
    /\ Len(txs) = 0 => root = Sha256(<<"empty">>)
    /\ Len(txs) = 1 => root = h[1]
    /\ Len(txs) = 2 => root = H2(h[1], h[2])
    /\ Len(txs) = 3 => root = H2(H2(h[1], h[2]), h[3])
    /\ Len(txs) = 4 => root = H2(H2(h[1], h[2]), H2(h[3], h[4]))
    /\ Len(txs) >= 1 => root = TopOf(h)
    /\ ret.op = "calculateMerkleRoot" => ret.root = root

\* The root of three transactions has been computed.
C30_Witness ==
    /\ ret.op = "calculateMerkleRoot"
    /\ Len(pendingTransactions) = 3
    /\ pendingTransactions[1].from # pendingTransactions[3].from
    /\ ret.root = Sha256(<<"cat",
                           Sha256(<<"cat", calculateHash(pendingTransactions[1]),
                                           calculateHash(pendingTransactions[2])>>),
                           calculateHash(pendingTransactions[3])>>)

\* C31: a mine triggered on quorum builds a new block from the pool and the tip
\* and leaves the stored proposals as they are: every stored proposal has nonce
\* 0 and, as key and as hash field, the hash computed from its fields with that
\* nonce; after a mine triggered by voteOnBlock the proposal and its votes are
\* still registered under that hash, and a mine triggered by handleNodeFailure
\* changes none of the proposals it leaves registered.
C31_ProposalKeptAsProposed ==
    /\ \A i \in 1..Len(pendingValidations) :
          LET p == pendingValidations[i].val.proposal IN
          /\ p.nonce = 0
          /\ p.hash = pendingValidations[i].key
          /\ p.hash = Sha256(<<"args", p.index, p.timestamp, p.transactions,
                               p.previousHash, 0, p.merkleRoot>>)
    /\ \A h \in ProposalHashes : \A v \in BOOLEAN :
          \A r \in {voteOnBlockOp(St, h, v, now)} :
          (r.ret.ok /\ Len(r.st.chain) > Len(chain)) =>
              /\ r.st.chain[Len(r.st.chain)].transactions = pendingTransactions
              /\ r.st.chain[Len(r.st.chain)].previousHash = chain[Len(chain)].hash
              /\ r.st.chain[Len(r.st.chain)].hash.pre = 0
              /\ MapHas(r.st.pv, h) /\ MapHas(r.st.votes, h)
              /\ nodeId \in DOMAIN MapGet(r.st.votes, h)
              /\ \A k \in ProposalHashes :
                    /\ MapHas(r.st.pv, k)
                    /\ MapGet(r.st.pv, k).proposal = MapGet(pendingValidations, k).proposal
    /\ \A n \in NodeIds :
          \A r \in {handleNodeFailureOp(St, n, now)} :
          \A j \in 1..Len(r.st.pv) :
              /\ MapHas(pendingValidations, r.st.pv[j].key)
              /\ r.st.pv[j].val.proposal =
                    MapGet(pendingValidations, r.st.pv[j].key).proposal

\* voteOnBlock has mined; the proposal it voted on is registered with its votes
\* under a hash other than the mined block's.
C31_Witness ==
    /\ ret.op = "voteOnBlock" /\ ret.ok /\ ret.hasBlock
    /\ \E i \in 1..Len(pendingValidations) :
          LET p == pendingValidations[i].val.proposal IN
          /\ p.index = Len(chain) - 1
          /\ p.transactions = chain[Len(chain)].transactions
          /\ p.hash # chain[Len(chain)].hash
          /\ MapHas(votes, p.hash)
          /\ nodeId \in DOMAIN MapGet(votes, p.hash)

\* C32: whenever voteOnBlock or handleNodeFailure mines because a proposal is at
\* quorum, the appended block holds exactly the transactions of that proposal,
\* in the same order, also when transactions were added between the proposal
\* and the quorum.
C32_MinedBlockIsProposal ==
    /\ \A h \in ProposalHashes : \A v \in BOOLEAN :
          \A r \in {voteOnBlockOp(St, h, v, now)} :
          (r.ret.ok /\ Len(r.st.chain) > Len(chain)) =>
              r.st.chain[Len(r.st.chain)].transactions =
                  MapGet(pendingValidations, h).proposal.transactions
    /\ \A n \in NodeIds :
          \A r \in {handleNodeFailureOp(St, n, now)} :
          Len(r.st.chain) > Len(chain) =>
              \E h \in ProposalHashes :
                  /\ ~MapHas(r.st.pv, h)
                  /\ r.st.chain[Len(r.st.chain)].transactions =
                        MapGet(pendingValidations, h).proposal.transactions

\* C33: voteOnBlock and handleNodeFailure mine only on behalf of a proposal
\* whose index is the current chain length and whose previousHash is the
\* current tip's hash, so that a proposal whose block has been mined (its index
\* is below the chain length) never gets a second block appended for it.
C33_MinesOnlyForNextIndex ==
    /\ \A h \in ProposalHashes : \A v \in BOOLEAN :
          \A r \in {voteOnBlockOp(St, h, v, now)} :
          (r.ret.ok /\ Len(r.st.chain) > Len(chain)) =>
              /\ MapGet(pendingValidations, h).proposal.index = Len(chain)
              /\ MapGet(pendingValidations, h).proposal.previousHash =
                    chain[Len(chain)].hash
    /\ \A n \in NodeIds :
          \A r \in {handleNodeFailureOp(St, n, now)} :
          Len(r.st.chain) > Len(chain) =>
              \A h \in ProposalHashes :
                  ~MapHas(r.st.pv, h) =>
                      /\ MapGet(pendingValidations, h).proposal.index = Len(chain)
                      /\ MapGet(pendingValidations, h).proposal.previousHash =
                            chain[Len(chain)].hash

\* C34: every recorded vote is under the local node id, so no vote map holds
\* more than one vote; and while the registry counts two or more nodes (at
\* least one peer), no proposeBlock and no voteOnBlock call reports quorum,
\* leaves a proposal at or above the threshold, or appends a block.
C34_NoQuorumWithPeers ==
    /\ \A i \in 1..Len(votes) :
          /\ DOMAIN votes[i].val \subseteq {nodeId}
          /\ \A n \in DOMAIN votes[i].val : votes[i].val[n].nodeId = nodeId
    /\ networkNodes # {} =>
          /\ \A h \in ProposalHashes : \A v \in BOOLEAN :
                \A r \in {voteOnBlockOp(St, h, v, now)} :
                /\ r.st.chain = chain
                /\ ~r.ret.consensusReached /\ ~r.ret.hasBlock
                /\ \A k \in ProposalHashes :
                      ~ConsensusReached(Tally(r.st, k), getNodeCount(r.st.nodes))
          /\ \A txs \in TxLists :
                \A r \in {proposeBlockOp(St, txs, now)} :
                /\ r.st.chain = chain
                /\ ~r.ret.consensusReached /\ ~r.ret.hasBlock
                /\ \A j \in 1..Len(r.st.votes) :
                      ~ConsensusReached(Tally(r.st, r.st.votes[j].key),
                                        getNodeCount(r.st.nodes))

\* With a peer registered, a proposal holds the local node's yes vote, and a
\* further voteOnBlock on it has returned an error.
C34_Witness ==
    /\ networkNodes # {}
    /\ ret.op = "voteOnBlock" /\ ~ret.ok
    /\ Len(chain) = 1
    /\ \E i \in 1..Len(votes) :
          /\ DOMAIN votes[i].val = {nodeId}
          /\ votes[i].val[nodeId].isValid

\* C35: the proposal map and the vote map hold the same proposal hashes, and
\* for each proposal the votes of its own votes list are exactly the votes the
\* vote map holds under its hash, each once.
C35_ListsMatchVoteMap ==
    /\ {pendingValidations[i].key : i \in 1..Len(pendingValidations)} =
          {votes[i].key : i \in 1..Len(votes)}
    /\ \A i \in 1..Len(pendingValidations) :
          LET list == pendingValidations[i].val.votes
              votesMap == MapGet(votes, pendingValidations[i].key)
          IN /\ {list[j] : j \in 1..Len(list)} = {votesMap[n] : n \in DOMAIN votesMap}
             /\ Len(list) = Cardinality(DOMAIN votesMap)

\* The ids of the pooled transactions followed by those of the blocks' transactions
RECURSIVE ChainIds(_)
ChainIds(b) ==
    IF b = 0 THEN <<>>
    ELSE ChainIds(b - 1) \o
         [i \in 1..Len(chain[b].transactions) |-> chain[b].transactions[i].id]

LedgerIds ==
    [i \in 1..Len(pendingTransactions) |-> pendingTransactions[i].id] \o
    ChainIds(Len(chain))

\* C36: every transaction id occurs at most once across the pool and all the
\* blocks of the chain, and the pooled and mined transactions all carry an id
\* the ledger gave them.
C36_IdsUnique ==
    /\ \A i, j \in 1..Len(LedgerIds) : LedgerIds[i] = LedgerIds[j] => i = j
    /\ \A i \in 1..Len(LedgerIds) : LedgerIds[i] # NoId /\ LedgerIds[i] < nextId

\* proposeBlock was handed a transaction of a mined block: the pool holds it
\* once more, same sender, receiver and data, under another id.
C36_Witness ==
    /\ ret.op = "proposeBlock" /\ ret.ok
    /\ \E b \in 1..Len(chain) : \E i \in 1..Len(chain[b].transactions) :
       \E j \in 1..Len(pendingTransactions) :
          /\ pendingTransactions[j].from = chain[b].transactions[i].from
          /\ pendingTransactions[j].to = chain[b].transactions[i].to
          /\ pendingTransactions[j].data = chain[b].transactions[i].data
          /\ pendingTransactions[j].id # chain[b].transactions[i].id

\* The stored proposals that clear the threshold once n's vote is gone and n is
\* no peer, and that validateBlockProposal accepts against the chain as it is
AtQuorumWithout(n) ==
    {h \in ProposalHashes :
        /\ MapHas(votes, h)
        /\ ConsensusReached(YesVotes(VotesDelete(MapGet(votes, h), n)),
                            getNodeCount(networkNodes \ {n}))
        /\ validateBlockProposal(chain, MapGet(pendingValidations, h).proposal)}

\* C37: one handleNodeFailure call appends at most one block and deletes at
\* most one proposal, however many open proposals are at quorum after the
\* removal; with k of them at quorum, at least k - 1 of these stay registered,
\* each with its proposal unchanged and its votes other than n's, and all k
\* stay when no block is appended.
C37_FailureMinesOnce ==
    \A n \in NodeIds :
        \A r \in {handleNodeFailureOp(St, n, now)} :
        LET stay == {h \in AtQuorumWithout(n) :
                        /\ MapHas(r.st.pv, h) /\ MapHas(r.st.votes, h)
                        /\ MapGet(r.st.pv, h) = MapGet(pendingValidations, h)
                        /\ MapGet(r.st.votes, h) = VotesDelete(MapGet(votes, h), n)}
        IN /\ Len(r.st.chain) \in {Len(chain), Len(chain) + 1}
           /\ \A b \in 1..Len(chain) : r.st.chain[b] = chain[b]
           /\ Len(r.st.pv) >= Len(pendingValidations) - 1
           /\ Len(r.st.chain) = Len(chain) + 1 =>
                 /\ r.st.pending = <<>>
                 /\ Cardinality(stay) = Cardinality(AtQuorumWithout(n)) - 1
           /\ Len(r.st.chain) = Len(chain) => stay = AtQuorumWithout(n)

\* handleNodeFailure has mined one block for one of two proposals of the same
\* index: the other one, found with the pool emptied, is still registered at
\* quorum.
C37_Witness ==
    /\ ret.op = "handleNodeFailure" /\ ret.hasBlock
    /\ pendingTransactions = <<>>
    /\ \E i \in 1..Len(pendingValidations) :
          LET p == pendingValidations[i].val.proposal IN
          /\ p.index = Len(chain) - 1
          /\ p.previousHash = chain[Len(chain) - 1].hash
          /\ MapHas(votes, p.hash)
          /\ ConsensusReached(YesVotes(MapGet(votes, p.hash)), getNodeCount(networkNodes))

\* The nodes above the leaves of the tree: level (from 1, the leaves) and position
InternalNodes ==
    {n \in (2..Len(merkle.levels)) \X (1..MaxLeaves) : n[2] <= Len(merkle.levels[n[1]])}

\* A proof a caller assembles for an internal node: the node's hash as leaf and
\* the part of a path from that node up to the root
UpperProof(l, i) ==
    [present |-> TRUE, hasLeaf |-> TRUE, leaf |-> merkle.levels[l][i], pathKind |-> "list",
     path |-> proofPath(merkle.levels, i - 1, l - 1), hasRoot |-> TRUE, root |-> merkle.root]

\* C38: for the tree's root r, verifyProof(d, p, r) is true, for data d that is
\* given (truthy) and a proof p the caller supplies, only if the leaf hash taken
\* from d is the hash of one of the tree's items; the hash of an internal node,
\* given as a precomputed hash with the upper part of a path, is not accepted.
C38_OnlyItemsVerify ==
    merkle.hasRoot =>
        \A d \in {x \in DataArgs : Truthy(x)} \cup
                 {HexString(merkle.levels[n[1]][n[2]]) : n \in InternalNodes} :
        \A p \in {merkle.proof} \cup {UpperProof(n[1], n[2]) : n \in InternalNodes} :
            verifyProof(d, p, merkle.root) = "true" =>
                \E k \in 1..Len(merkle.leaves) : merkle.leaves[k] = leafHashOf(d)

=============================================================================
